---- MODULE Spec2Model ----
(***************************************************************************)
(* Model of the w3lib URL engine: the WHATWG URL parsing state machine     *)
(* (_parse_url), the URL serializer (_serialize_url) and the safe-URL      *)
(* facade (_safe_url), with the percent-encode sets, the percent-encoders, *)
(* the host parser and the IPv4/IPv6 parsers and serializers they use.     *)
(*                                                                         *)
(* Strings are sequences of code points (naturals); bytes are naturals    *)
(* in 0..255.  A raised ValueError is the record Fail, another exception   *)
(* is Error(kind); a successful result r is Ok(r).                         *)
(***************************************************************************)
EXTENDS Integers, Sequences, FiniteSets, TLC

(***************************************************************************)
(* Generic helpers on sequences.                                           *)
(***************************************************************************)
\* a raised exception of the given kind
Error(kind) == [ok |-> FALSE, v |-> <<>>, err |-> kind]

Fail == Error("ValueError")

Ok(x) == [ok |-> TRUE, v |-> x, err |-> ""]

Range(s) == {s[i] : i \in 1..Len(s)}

\* "".join(ss): the two halves of ss are joined, which keeps the evaluation
\* shallow on long sequences
RECURSIVE Concat(_)
Concat(ss) ==
    IF ss = <<>> THEN <<>>
    ELSE IF Len(ss) = 1 THEN ss[1]
    ELSE LET half == Len(ss) \div 2 IN
         Concat(SubSeq(ss, 1, half)) \o Concat(SubSeq(ss, half + 1, Len(ss)))

Last(s) == s[Len(s)]

Front(s) == SubSeq(s, 1, Len(s) - 1)

Min(a, b) == IF a < b THEN a ELSE b

Max(a, b) == IF a > b THEN a ELSE b

\* s[from:] of Python, with a 0-based index
From(s, from) == SubSeq(s, from + 1, Len(s))

StartsWith(s, p) == Len(s) >= Len(p) /\ SubSeq(s, 1, Len(p)) = p

EndsWith(s, p) == Len(s) >= Len(p) /\ SubSeq(s, Len(s) - Len(p) + 1, Len(s)) = p

\* str.split(sep) of Python for a one-character separator
RECURSIVE SplitAcc(_, _, _)
SplitAcc(s, sep, cur) ==
    IF s = <<>> THEN <<cur>>
    ELSE IF Head(s) = sep THEN <<cur>> \o SplitAcc(Tail(s), sep, <<>>)
    ELSE SplitAcc(Tail(s), sep, Append(cur, Head(s)))

\* the same from the positions of the separators: part k lies between the
\* separators k - 1 and k
Split(s, sep) ==
    LET seps == {i \in 1..Len(s) : s[i] = sep}
        n == Cardinality(seps)
        Pos(k) == IF k = 0 THEN 0
                  ELSE IF k = n + 1 THEN Len(s) + 1
                  ELSE CHOOSE i \in seps : Cardinality({j \in seps : j <= i}) = k
    IN [k \in 1..(n + 1) |-> SubSeq(s, Pos(k - 1) + 1, Pos(k) - 1)]

\* sep.join(parts) of Python
RECURSIVE Join(_, _)
Join(parts, sep) ==
    IF parts = <<>> THEN <<>>
    ELSE IF Len(parts) = 1 THEN parts[1]
    ELSE parts[1] \o sep \o Join(Tail(parts), sep)

\* str.find(ch, start) of Python, 0-based, -1 when absent
RECURSIVE Find(_, _, _)
Find(s, ch, start) ==
    IF start >= Len(s) THEN -1
    ELSE IF s[start + 1] = ch THEN start
    ELSE Find(s, ch, start + 1)

(***************************************************************************)
(* Code points that the model names.                                       *)
(***************************************************************************)
TAB == 9
LF == 10
CR == 13
SP == 32
QUOTE == 34
HASH == 35
PCT == 37
APOS == 39
MINUS == 45
DOT == 46
SLASH == 47
D0 == 48
D2 == 50
D4 == 52
COLON == 58
QMARK == 63
AT == 64
UE == 69
UX == 88
LBRACK == 91
BSLASH == 92
RBRACK == 93
LA == 97
LE == 101
LF_ == 102
LH == 104
LI == 105
LL == 108
LP == 112
LS == 115
LT_ == 116
LW == 119
LX == 120
PIPE == 124
TILDE == 126
DEL == 127
EACUTE == 233
AMACRON == 256

(***************************************************************************)
(* Infra character predicates (w3lib._infra).                              *)
(***************************************************************************)
ASCII_UPPER_ALPHA == 65..90

ASCII_LOWER_ALPHA == 97..122

ASCII_ALPHA == ASCII_UPPER_ALPHA \cup ASCII_LOWER_ALPHA

ASCII_DIGIT == 48..57

ASCII_ALPHANUMERIC == ASCII_ALPHA \cup ASCII_DIGIT

ASCII_HEX_DIGIT == ASCII_DIGIT \cup (65..70) \cup (97..102)

ASCII_TAB_OR_NEWLINE == {TAB, LF, CR}

ASCII_WHITESPACE == {TAB, LF, 12, CR, SP}

C0_CONTROL == 0..31

C0_CONTROL_OR_SPACE == C0_CONTROL \cup {SP}

\* str.lower() on the code points the model uses (ASCII)
LowerChar(c) == IF c \in ASCII_UPPER_ALPHA THEN c + 32 ELSE c

Lower(s) == [i \in 1..Len(s) |-> LowerChar(s[i])]

UpperChar(c) == IF c \in ASCII_LOWER_ALPHA THEN c - 32 ELSE c

IsAscii(s) == \A i \in 1..Len(s) : s[i] < 128

\* int(ch, base=16) for one hex digit
HexVal(c) ==
    IF c \in ASCII_DIGIT THEN c - 48
    ELSE IF c \in 65..70 THEN c - 55
    ELSE c - 87

\* one digit of f"{n:X}" / f"{n:x}"
HexUpper(d) == IF d < 10 THEN 48 + d ELSE 55 + d

HexLower(d) == IF d < 10 THEN 48 + d ELSE 87 + d

\* str(n) for n >= 0
RECURSIVE DecStr(_)
DecStr(n) == IF n < 10 THEN <<48 + n>> ELSE DecStr(n \div 10) \o <<48 + (n % 10)>>

\* f"{n:x}" for n >= 0
RECURSIVE HexStr(_)
HexStr(n) == IF n < 16 THEN <<HexLower(n)>> ELSE HexStr(n \div 16) \o <<HexLower(n % 16)>>

\* int(s, base=r) for a string of digits valid in base r; Fail otherwise
DigitOk(c, r) ==
    IF r = 16 THEN c \in ASCII_HEX_DIGIT
    ELSE IF r = 10 THEN c \in ASCII_DIGIT
    ELSE c \in 48..55

RECURSIVE IntAcc(_, _, _)
IntAcc(s, r, acc) ==
    IF s = <<>> THEN acc ELSE IntAcc(Tail(s), r, acc * r + HexVal(Head(s)))

ParseInt(s, r) ==
    IF s = <<>> \/ \E i \in 1..Len(s) : ~DigitOk(s[i], r) THEN Fail
    ELSE Ok(IntAcc(s, r, 0))

(***************************************************************************)
(* Percent-encode sets (_PercentEncodeSet).                                *)
(***************************************************************************)
MaxCodePoint == 1114111

\* _PercentEncodeSet.__init__ with exclude=False
PercentEncodeSet(code_points, greater_than) ==
    [code_points |-> code_points, greater_than |-> greater_than]

\* _PercentEncodeSet.__init__ with exclude=True
PercentEncodeSetExclude(code_points, greater_than) ==
    [code_points |-> (0..greater_than) \ code_points, greater_than |-> greater_than]

\* _PercentEncodeSet.__contains__
Contains(set, code_point) ==
    code_point \in set.code_points \/ code_point > set.greater_than

\* _PercentEncodeSet.__add__
SetAdd(set, code_points) ==
    PercentEncodeSet(set.code_points \cup code_points, set.greater_than)

\* a subtraction that removes nothing
SetSub_KeepAll(set, code_points) == set

\* _PercentEncodeSet.__sub__
SetSub(set, code_points) ==
    PercentEncodeSet(set.code_points \ code_points, set.greater_than)

\* a union that keeps the greater threshold
SetOr_MaxThreshold(a, b) ==
    PercentEncodeSet(a.code_points \cup b.code_points, Max(a.greater_than, b.greater_than))

\* _PercentEncodeSet.__or__
SetOr(a, b) ==
    PercentEncodeSet(a.code_points \cup b.code_points, Min(a.greater_than, b.greater_than))

\* _PercentEncodeSet.__and__
SetAnd(a, b) ==
    PercentEncodeSet(a.code_points \cap b.code_points, Max(a.greater_than, b.greater_than))

(***************************************************************************)
(* Static percent-encode sets.                                             *)
(***************************************************************************)
C0_CONTROL_PERCENT_ENCODE_SET == PercentEncodeSet(C0_CONTROL, TILDE)

FRAGMENT_PERCENT_ENCODE_SET == SetAdd(C0_CONTROL_PERCENT_ENCODE_SET, {SP, QUOTE, 60, 62, 96})

QUERY_PERCENT_ENCODE_SET == SetAdd(C0_CONTROL_PERCENT_ENCODE_SET, {SP, QUOTE, HASH, 60, 62})

SPECIAL_QUERY_PERCENT_ENCODE_SET == SetAdd(QUERY_PERCENT_ENCODE_SET, {APOS})

PATH_PERCENT_ENCODE_SET == SetAdd(QUERY_PERCENT_ENCODE_SET, {QMARK, 96, 123, 125})

USERINFO_PERCENT_ENCODE_SET ==
    SetAdd(PATH_PERCENT_ENCODE_SET, {SLASH, COLON, 59, 61, AT, LBRACK, BSLASH, RBRACK, 94, PIPE})

\* RFC 3986 and RFC 2396 character classes (w3lib._rfc3986, w3lib._rfc2396):
\* every code point up to DEL that the grammar of the component does not
\* allow literally is in the set; '%' is not a literal of any component.
RFC3986_UNRESERVED == ASCII_ALPHANUMERIC \cup {MINUS, DOT, 95, TILDE}

RFC3986_SUB_DELIMS == {33, 36, 38, APOS, 40, 41, 42, 43, 44, 59, 61}

RFC3986_PCHAR == RFC3986_UNRESERVED \cup RFC3986_SUB_DELIMS \cup {COLON, AT}

RFC3986_USERINFO_PERCENT_ENCODE_SET ==
    PercentEncodeSetExclude(RFC3986_UNRESERVED \cup RFC3986_SUB_DELIMS \cup {COLON}, DEL)

RFC3986_PATH_PERCENT_ENCODE_SET == PercentEncodeSetExclude(RFC3986_PCHAR \cup {SLASH}, DEL)

RFC3986_QUERY_PERCENT_ENCODE_SET ==
    PercentEncodeSetExclude(RFC3986_PCHAR \cup {SLASH, QMARK}, DEL)

RFC3986_FRAGMENT_PERCENT_ENCODE_SET ==
    PercentEncodeSetExclude(RFC3986_PCHAR \cup {SLASH, QMARK}, DEL)

RFC2396_UNRESERVED == ASCII_ALPHANUMERIC \cup {MINUS, 95, DOT, 33, TILDE, 42, APOS, 40, 41}

RFC2396_RESERVED == {59, SLASH, QMARK, COLON, AT, 38, 61, 43, 36, 44}

RFC2396_PCHAR == RFC2396_UNRESERVED \cup {COLON, AT, 38, 61, 43, 36, 44}

RFC2396_USERINFO_PERCENT_ENCODE_SET ==
    PercentEncodeSetExclude(RFC2396_UNRESERVED \cup {59, COLON, 38, 61, 43, 36, 44}, DEL)

RFC2396_ABS_PATH_PERCENT_ENCODE_SET ==
    PercentEncodeSetExclude(RFC2396_PCHAR \cup {59, SLASH}, DEL)

RFC2396_QUERY_PERCENT_ENCODE_SET ==
    PercentEncodeSetExclude(RFC2396_RESERVED \cup RFC2396_UNRESERVED, DEL)

RFC2396_FRAGMENT_PERCENT_ENCODE_SET ==
    PercentEncodeSetExclude(RFC2396_RESERVED \cup RFC2396_UNRESERVED, DEL)

SAFE_USERINFO_PERCENT_ENCODE_SET ==
    SetOr(SetOr(USERINFO_PERCENT_ENCODE_SET, RFC3986_USERINFO_PERCENT_ENCODE_SET),
          RFC2396_USERINFO_PERCENT_ENCODE_SET)

SAFE_PATH_PERCENT_ENCODE_SET ==
    SetOr(SetOr(PATH_PERCENT_ENCODE_SET, RFC3986_PATH_PERCENT_ENCODE_SET),
          RFC2396_ABS_PATH_PERCENT_ENCODE_SET)

SAFE_QUERY_PERCENT_ENCODE_SET ==
    SetOr(SetOr(QUERY_PERCENT_ENCODE_SET, RFC3986_QUERY_PERCENT_ENCODE_SET),
          RFC2396_QUERY_PERCENT_ENCODE_SET)

SAFE_SPECIAL_QUERY_PERCENT_ENCODE_SET ==
    SetOr(SetOr(SPECIAL_QUERY_PERCENT_ENCODE_SET, RFC3986_QUERY_PERCENT_ENCODE_SET),
          RFC2396_QUERY_PERCENT_ENCODE_SET)

SAFE_FRAGMENT_PERCENT_ENCODE_SET ==
    SetOr(SetOr(FRAGMENT_PERCENT_ENCODE_SET, RFC3986_FRAGMENT_PERCENT_ENCODE_SET),
          RFC2396_FRAGMENT_PERCENT_ENCODE_SET)

\* the five sets _parse_url takes: its defaults, and those _safe_url passes
StandardSets ==
    [userinfo |-> USERINFO_PERCENT_ENCODE_SET,
     path |-> PATH_PERCENT_ENCODE_SET,
     query |-> QUERY_PERCENT_ENCODE_SET,
     special_query |-> SPECIAL_QUERY_PERCENT_ENCODE_SET,
     fragment |-> FRAGMENT_PERCENT_ENCODE_SET]

SafeSets ==
    [userinfo |-> SAFE_USERINFO_PERCENT_ENCODE_SET,
     path |-> SAFE_PATH_PERCENT_ENCODE_SET,
     query |-> SAFE_QUERY_PERCENT_ENCODE_SET,
     special_query |-> SAFE_SPECIAL_QUERY_PERCENT_ENCODE_SET,
     fragment |-> SAFE_FRAGMENT_PERCENT_ENCODE_SET]

(***************************************************************************)
(* Encodings and the percent-encoder.                                      *)
(***************************************************************************)
REPLACEMENT_ENCODING == "replacement"

UTF_8_ENCODING == "utf-8"

UTF_16BE_ENCODING == "utf-16be"

UTF_16LE_ENCODING == "utf-16le"

WINDOWS_1252_ENCODING == "windows-1252"

\* the labels of _LABEL_ENCODINGS that the model uses
LABEL_ENCODINGS ==
    [l \in {"utf-8", "utf8", "unicode-1-1-utf-8", "latin1", "windows-1252", "ascii",
            "replacement", "iso-2022-kr", "utf-16be", "utf-16le", "utf-16"} |->
        CASE l \in {"utf-8", "utf8", "unicode-1-1-utf-8"} -> UTF_8_ENCODING
          [] l \in {"latin1", "windows-1252", "ascii"} -> WINDOWS_1252_ENCODING
          [] l \in {"replacement", "iso-2022-kr"} -> REPLACEMENT_ENCODING
          [] l = "utf-16be" -> UTF_16BE_ENCODING
          [] OTHER -> UTF_16LE_ENCODING]

\* _get_encoding; labels are given stripped and in lower case
GetEncoding(label) ==
    IF label \in DOMAIN LABEL_ENCODINGS THEN Ok(LABEL_ENCODINGS[label]) ELSE Fail

OUTPUT_ENCODING_UTF8_ENCODINGS == {REPLACEMENT_ENCODING, UTF_16BE_ENCODING, UTF_16LE_ENCODING}

\* _get_output_encoding
GetOutputEncoding(label) ==
    LET e == GetEncoding(label) IN
    IF ~e.ok THEN Fail
    ELSE IF e.v \in OUTPUT_ENCODING_UTF8_ENCODINGS THEN Ok(UTF_8_ENCODING)
    ELSE e

\* the UTF-8 codec on one code point
Utf8Bytes(cp) ==
    IF cp < 128 THEN <<cp>>
    ELSE IF cp < 2048 THEN <<192 + (cp \div 64), 128 + (cp % 64)>>
    ELSE IF cp < 65536 THEN
        <<224 + (cp \div 4096), 128 + ((cp \div 64) % 64), 128 + (cp % 64)>>
    ELSE <<240 + (cp \div 262144), 128 + ((cp \div 4096) % 64),
           128 + ((cp \div 64) % 64), 128 + (cp % 64)>>

\* the windows-1252 codec on one code point, with errors="xmlcharrefreplace"
Cp1252Bytes(cp) ==
    IF cp < 128 \/ cp \in 160..255 THEN <<cp>>
    ELSE IF cp = 8364 THEN <<128>>
    ELSE <<38, 35>> \o DecStr(cp) \o <<59>>

\* encoder(input, "xmlcharrefreplace") of _get_encoder(encoding)
EncodeBytes(input, encoding) ==
    Concat([i \in 1..Len(input) |->
        IF encoding = UTF_8_ENCODING THEN Utf8Bytes(input[i]) ELSE Cp1252Bytes(input[i])])

\* one byte of the loop of _percent_encode_after_encoding; i is 0-based
PercentEncodeByte(bytes, i, percent_encode_set, space_as_plus) ==
    LET byte == bytes[i + 1] IN
    IF space_as_plus /\ byte = SP THEN <<43>>
    ELSE IF ~Contains(percent_encode_set, byte) THEN <<byte>>
    ELSE IF byte = PCT THEN
        IF \/ Len(bytes) <= i + 2
           \/ bytes[i + 2] \notin ASCII_HEX_DIGIT
           \/ bytes[i + 3] \notin ASCII_HEX_DIGIT
        THEN <<PCT, D2, 53>>
        ELSE <<PCT>>
    ELSE <<PCT, HexUpper(byte \div 16), HexUpper(byte % 16)>>

\* _percent_encode_after_encoding
PercentEncodeAfterEncoding(input, encoding, percent_encode_set, space_as_plus) ==
    LET bytes == EncodeBytes(input, encoding) IN
    Concat([i \in 1..Len(bytes) |->
        PercentEncodeByte(bytes, i - 1, percent_encode_set, space_as_plus)])

\* _utf_8_percent_encode
Utf8PercentEncode(input, percent_encode_set) ==
    PercentEncodeAfterEncoding(input, UTF_8_ENCODING, percent_encode_set, FALSE)

\* an encoder that does not look at what follows a '%'
IdempotentUtf8PercentEncode_NoLookahead(input, pointer, encode_set) ==
    Utf8PercentEncode(<<input[pointer + 1]>>, encode_set)

\* _idempotent_utf_8_percent_encode; pointer is 0-based
IdempotentUtf8PercentEncode(input, pointer, encode_set) ==
    LET code_point == input[pointer + 1] IN
    IF code_point = PCT /\ Contains(encode_set, PCT) THEN
        IF \/ pointer + 2 >= Len(input)
           \/ input[pointer + 2] \notin ASCII_HEX_DIGIT
           \/ input[pointer + 3] \notin ASCII_HEX_DIGIT
        THEN <<PCT, D2, 53>>
        ELSE <<PCT>>
    ELSE Utf8PercentEncode(<<code_point>>, encode_set)

\* the per-code-point encoder applied to every position of a string, as the
\* AUTHORITY, PATH and FRAGMENT states apply it
IdempotentEncodeAll(input, encode_set) ==
    Concat([i \in 1..Len(input) |-> IdempotentUtf8PercentEncode(input, i - 1, encode_set)])

\* str.strip(chars)
RECURSIVE LStrip(_, _)
LStrip(s, chars) ==
    IF s # <<>> /\ Head(s) \in chars THEN LStrip(Tail(s), chars) ELSE s

RECURSIVE RStrip(_, _)
RStrip(s, chars) ==
    IF s # <<>> /\ Last(s) \in chars THEN RStrip(Front(s), chars) ELSE s

\* a _preprocess_url that strips the ends and keeps the tabs and newlines inside
PreprocessUrl_StripOnly(url) ==
    RStrip(LStrip(url, C0_CONTROL_OR_SPACE), C0_CONTROL_OR_SPACE)

\* _preprocess_url
PreprocessUrl(url) ==
    SelectSeq(RStrip(LStrip(url, C0_CONTROL_OR_SPACE), C0_CONTROL_OR_SPACE),
              LAMBDA c : c \notin ASCII_TAB_OR_NEWLINE)

(***************************************************************************)
(* IPv4.                                                                   *)
(***************************************************************************)
\* int(input, base=r) of Python: an optional sign, then digits of the base
PyInt(s, r) ==
    IF s # <<>> /\ Head(s) \in {43, MINUS} THEN
        LET m == ParseInt(Tail(s), r) IN
        IF ~m.ok THEN Fail ELSE IF Head(s) = MINUS THEN Ok(0 - m.v) ELSE m
    ELSE ParseInt(s, r)

\* _parse_ipv4_number: Ok(<<number, validation_error>>) or Fail
ParseIpv4Number(input) ==
    IF input = <<>> THEN Fail
    ELSE
        LET hex == Len(input) >= 2 /\ SubSeq(input, 1, 2) \in {<<D0, UX>>, <<D0, LX>>}
            oct == Len(input) >= 2 /\ ~hex /\ input[1] = D0
            rest == IF hex THEN From(input, 2) ELSE IF oct THEN From(input, 1) ELSE input
            r == IF hex THEN 16 ELSE IF oct THEN 8 ELSE 10
        IN
        IF rest = <<>> THEN Ok(<<0, TRUE>>)
        ELSE LET n == PyInt(rest, r) IN
             IF n.ok THEN Ok(<<n.v, hex \/ oct>>) ELSE Fail

\* _ends_in_number
EndsInNumber(input) ==
    LET parts0 == Split(input, DOT) IN
    IF Last(parts0) = <<>> /\ Len(parts0) = 1 THEN FALSE
    ELSE
        LET parts == IF Last(parts0) = <<>> THEN Front(parts0) ELSE parts0
            last == Last(parts)
        IN
        \/ last # <<>> /\ \A i \in 1..Len(last) : last[i] \in ASCII_DIGIT
        \/ ParseIpv4Number(last).ok

RECURSIVE Pow(_, _)
Pow(b, e) == IF e = 0 THEN 1 ELSE b * Pow(b, e - 1)

\* "n >= 256 ** e": the numbers of the model are below 2^31, so below 256^4
Ipv4TooBig(n, e) == e < 4 /\ n >= Pow(256, e)

RECURSIVE Ipv4Sum(_, _)
Ipv4Sum(numbers, counter) ==
    IF numbers = <<>> THEN 0
    ELSE Head(numbers) * Pow(256, 3 - counter) + Ipv4Sum(Tail(numbers), counter + 1)

\* _parse_ipv4
ParseIpv4(input) ==
    LET parts0 == Split(input, DOT)
        parts == IF Last(parts0) = <<>> THEN Front(parts0) ELSE parts0
    IN
    IF Len(parts) > 4 THEN Fail
    ELSE IF parts = <<>> THEN Error("IndexError")
    ELSE
        LET results == [i \in 1..Len(parts) |-> ParseIpv4Number(parts[i])] IN
        IF \E i \in 1..Len(parts) : ~results[i].ok THEN Fail
        ELSE
            LET numbers == [i \in 1..Len(parts) |-> results[i].v[1]] IN
            IF \E i \in 1..(Len(numbers) - 1) : numbers[i] > 255 THEN Fail
            ELSE IF Ipv4TooBig(Last(numbers), 5 - Len(numbers)) THEN Fail
            ELSE Ok(Last(numbers) + Ipv4Sum(Front(numbers), 0))

\* a serializer that writes the least significant byte first
SerializeIpv4_Reversed(address) ==
    DecStr(address % 256) \o <<DOT>> \o
    DecStr((address \div 256) % 256) \o <<DOT>> \o
    DecStr((address \div 65536) % 256) \o <<DOT>> \o
    DecStr((address \div 16777216) % 256)

\* _serialize_ipv4
SerializeIpv4(address) ==
    DecStr((address \div 16777216) % 256) \o <<DOT>> \o
    DecStr((address \div 65536) % 256) \o <<DOT>> \o
    DecStr((address \div 256) % 256) \o <<DOT>> \o
    DecStr(address % 256)

(***************************************************************************)
(* IPv6.  None stands for Python's None where an integer is expected.      *)
(***************************************************************************)
None == -1

\* the inner while loop of _parse_ipv6 that reads up to 4 hex digits:
\* <<value, length, pointer>>
RECURSIVE Ipv6ReadHex(_, _, _, _)
Ipv6ReadHex(input, pointer, value, length) ==
    IF length < 4 /\ pointer < Len(input) /\ input[pointer + 1] \in ASCII_HEX_DIGIT
    THEN Ipv6ReadHex(input, pointer + 1, value * 16 + HexVal(input[pointer + 1]), length + 1)
    ELSE <<value, length, pointer>>

\* the digit loop of one dotted-quad part: Ok(<<ipv4_piece, pointer>>) or Fail
RECURSIVE Ipv6ReadDec(_, _, _)
Ipv6ReadDec(input, pointer, ipv4_piece) ==
    IF pointer < Len(input) /\ input[pointer + 1] \in ASCII_DIGIT THEN
        LET number == input[pointer + 1] - 48 IN
        IF ipv4_piece = 0 THEN Fail
        ELSE
            LET piece == IF ipv4_piece = None THEN number ELSE ipv4_piece * 10 + number IN
            IF piece > 255 THEN Fail ELSE Ipv6ReadDec(input, pointer + 1, piece)
    ELSE Ok(<<ipv4_piece, pointer>>)

\* the embedded dotted-quad loop of _parse_ipv6: Ok([address, piece_index]) or Fail
RECURSIVE Ipv6Embedded(_, _, _, _, _)
Ipv6Embedded(input, pointer, address, piece_index, numbers_seen) ==
    IF pointer >= Len(input) THEN
        IF numbers_seen # 4 THEN Fail
        ELSE Ok([address |-> address, piece_index |-> piece_index])
    ELSE
        LET dot_ok == numbers_seen = 0 \/ (input[pointer + 1] = DOT /\ numbers_seen < 4)
            p1 == IF numbers_seen > 0 THEN pointer + 1 ELSE pointer
        IN
        IF ~dot_ok THEN Fail
        ELSE IF p1 >= Len(input) \/ input[p1 + 1] \notin ASCII_DIGIT THEN Fail
        ELSE
            LET d == Ipv6ReadDec(input, p1, None) IN
            IF ~d.ok THEN Fail
            ELSE
                LET a2 == [address EXCEPT ![piece_index + 1] = @ * 256 + d.v[1]]
                    seen == numbers_seen + 1
                    pi2 == IF seen \in {2, 4} THEN piece_index + 1 ELSE piece_index
                IN Ipv6Embedded(input, d.v[2], a2, pi2, seen)

\* a swap loop that leaves the pieces after '::' where they were read
Ipv6Swap_NoMove(address, piece_index, swaps, compress) == address

\* the swap loop that moves the pieces after '::' to the end of the address
RECURSIVE Ipv6Swap(_, _, _, _)
Ipv6Swap(address, piece_index, swaps, compress) ==
    IF piece_index # 0 /\ swaps > 0 THEN
        LET i == piece_index + 1
            j == compress + swaps
        IN Ipv6Swap([address EXCEPT ![i] = address[j], ![j] = address[i]],
                    piece_index - 1, swaps - 1, compress)
    ELSE address

\* an end of _parse_ipv6 that does not count the pieces
Ipv6Finish_AnyCount(address, piece_index, compress) ==
    IF compress # None THEN Ok(Ipv6Swap(address, 7, piece_index - compress, compress))
    ELSE Ok(address)

\* the end of _parse_ipv6, after the main loop
Ipv6Finish(address, piece_index, compress) ==
    IF compress # None THEN Ok(Ipv6Swap(address, 7, piece_index - compress, compress))
    ELSE IF piece_index # 8 THEN Fail
    ELSE Ok(address)

\* the main while loop of _parse_ipv6
RECURSIVE Ipv6Loop(_, _, _, _, _)
Ipv6Loop(input, pointer, address, piece_index, compress) ==
    IF pointer >= Len(input) THEN Ipv6Finish(address, piece_index, compress)
    ELSE IF piece_index = 8 THEN Fail
    ELSE IF input[pointer + 1] = COLON THEN
        IF compress # None THEN Fail
        ELSE Ipv6Loop(input, pointer + 1, address, piece_index + 1, piece_index + 1)
    ELSE
        LET h == Ipv6ReadHex(input, pointer, 0, 0)
            value == h[1]
            length == h[2]
            p == h[3]
        IN
        IF p < Len(input) /\ input[p + 1] = DOT THEN
            IF length = 0 THEN Fail
            ELSE IF piece_index > 6 THEN Fail
            ELSE
                LET e == Ipv6Embedded(input, p - length, address, piece_index, 0) IN
                IF ~e.ok THEN Fail
                ELSE Ipv6Finish(e.v.address, e.v.piece_index, compress)
        ELSE IF p < Len(input) /\ input[p + 1] = COLON THEN
            IF p + 1 >= Len(input) THEN Fail
            ELSE Ipv6Loop(input, p + 1, [address EXCEPT ![piece_index + 1] = value],
                          piece_index + 1, compress)
        ELSE IF p < Len(input) THEN Fail
        ELSE Ipv6Loop(input, p, [address EXCEPT ![piece_index + 1] = value],
                      piece_index + 1, compress)

\* _parse_ipv6
ParseIpv6(input) ==
    LET zero == [i \in 1..8 |-> 0] IN
    IF 0 < Len(input) /\ input[1] = COLON THEN
        IF 1 >= Len(input) \/ input[2] # COLON THEN Fail
        ELSE Ipv6Loop(input, 2, zero, 1, 1)
    ELSE Ipv6Loop(input, 0, zero, 0, None)

\* the loop of _get_ipv6_first_longest_0_piece_index over current_index (0-based)
RECURSIVE Ipv6LongestLoop(_, _, _, _, _, _)
Ipv6LongestLoop(address, current_index, index, index_length, current_length, min_length) ==
    IF current_index >= Len(address) THEN index
    ELSE IF address[current_index + 1] # 0 THEN
        Ipv6LongestLoop(address, current_index + 1, index, index_length, 0, min_length)
    ELSE
        LET cl == current_length + 1 IN
        IF cl > index_length /\ cl >= min_length
        THEN Ipv6LongestLoop(address, current_index + 1, current_index + 1 - cl, cl, cl, min_length)
        ELSE Ipv6LongestLoop(address, current_index + 1, index, index_length, cl, min_length)

\* a search for the first longest run that takes a single zero piece for a run
GetIpv6FirstLongest0PieceIndex_Single(address) == Ipv6LongestLoop(address, 0, None, 0, 0, 1)

\* _get_ipv6_first_longest_0_piece_index with min_length=2
GetIpv6FirstLongest0PieceIndex(address) == Ipv6LongestLoop(address, 0, None, 0, 0, 2)

\* the loop of _serialize_ipv6 over piece_index (0-based)
RECURSIVE Ipv6SerLoop(_, _, _, _)
Ipv6SerLoop(address, compress, piece_index, ignore0) ==
    IF piece_index >= 8 THEN <<>>
    ELSE IF ignore0 /\ address[piece_index + 1] = 0 THEN
        Ipv6SerLoop(address, compress, piece_index + 1, TRUE)
    ELSE IF compress = piece_index THEN
        (IF piece_index = 0 THEN <<COLON, COLON>> ELSE <<COLON>>)
            \o Ipv6SerLoop(address, compress, piece_index + 1, TRUE)
    ELSE
        HexStr(address[piece_index + 1]) \o (IF piece_index # 7 THEN <<COLON>> ELSE <<>>)
            \o Ipv6SerLoop(address, compress, piece_index + 1, FALSE)

\* _serialize_ipv6
SerializeIpv6(address) ==
    Ipv6SerLoop(address, GetIpv6FirstLongest0PieceIndex(address), 0, FALSE)

(***************************************************************************)
(* Punycode (the "punycode" codec that _process and _convert_label use).   *)
(***************************************************************************)
\* T(j, bias) of the codec: the threshold of digit j
PunyT(j, bias) ==
    LET res == 36 * (j + 1) - bias IN
    IF res < 1 THEN 1 ELSE IF res > 26 THEN 26 ELSE res

PunyDigit(d) == IF d < 26 THEN 97 + d ELSE 22 + d

RECURSIVE PunyAdaptLoop(_, _)
PunyAdaptLoop(delta, divisions) ==
    IF delta > 455 THEN PunyAdaptLoop(delta \div 35, divisions + 36)
    ELSE divisions + ((36 * delta) \div (delta + 38))

PunyAdapt(delta, first, numchars) ==
    LET d1 == IF first THEN delta \div 700 ELSE delta \div 2 IN
    PunyAdaptLoop(d1 + (d1 \div numchars), 0)

\* generate_generalized_integer
RECURSIVE PunyVarInt(_, _, _)
PunyVarInt(N, bias, j) ==
    LET t == PunyT(j, bias) IN
    IF N < t THEN <<PunyDigit(N)>>
    ELSE <<PunyDigit(t + ((N - t) % (36 - t)))>> \o PunyVarInt((N - t) \div (36 - t), bias, j + 1)

\* one pass over the input for the code point n: [out, delta, bias, h]
RECURSIVE PunyPass(_, _, _, _)
PunyPass(input, i, n, st) ==
    IF i > Len(input) THEN st
    ELSE IF input[i] < n THEN PunyPass(input, i + 1, n, [st EXCEPT !.delta = @ + 1])
    ELSE IF input[i] = n THEN
        PunyPass(input, i + 1, n,
                 [out |-> st.out \o PunyVarInt(st.delta, st.bias, 0),
                  delta |-> 0,
                  bias |-> PunyAdapt(st.delta, st.h = st.b, st.h + 1),
                  h |-> st.h + 1,
                  b |-> st.b])
    ELSE PunyPass(input, i + 1, n, st)

RECURSIVE PunyEncodeLoop(_, _, _)
PunyEncodeLoop(input, n, st) ==
    IF st.h >= Len(input) THEN st.out
    ELSE
        LET m == CHOOSE x \in {c \in Range(input) : c >= n} :
                     \A y \in {c \in Range(input) : c >= n} : x <= y
            st1 == PunyPass(input, 1, m, [st EXCEPT !.delta = @ + (m - n) * (st.h + 1)])
        IN PunyEncodeLoop(input, m + 1, [st1 EXCEPT !.delta = @ + 1])

\* str.encode("punycode")
PunycodeEncode(input) ==
    LET base == SelectSeq(input, LAMBDA c : c < 128)
        b == Len(base)
    IN PunyEncodeLoop(input, 128,
           [out |-> IF b > 0 THEN Append(base, MINUS) ELSE <<>>,
            delta |-> 0, bias |-> 72, h |-> b, b |-> b])

\* decode_generalized_number: Ok(<<extpos, result>>) or Fail
RECURSIVE PunyDecodeNumber(_, _, _, _, _, _)
PunyDecodeNumber(extended, extpos, bias, result, w, j) ==
    IF extpos >= Len(extended) THEN Fail
    ELSE
        LET char == extended[extpos + 1]
            t == PunyT(j, bias)
        IN
        IF char \notin (65..90) \cup (48..57) THEN Fail
        ELSE
            LET digit == IF char \in 65..90 THEN char - 65 ELSE char - 22
                r2 == result + digit * w
            IN
            IF digit < t THEN Ok(<<extpos + 1, r2>>)
            ELSE PunyDecodeNumber(extended, extpos + 1, bias, r2, w * (36 - t), j + 1)

\* insertion_sort
RECURSIVE PunyInsertionSort(_, _, _, _, _, _)
PunyInsertionSort(base, extended, char, pos, bias, extpos) ==
    IF extpos >= Len(extended) THEN Ok(base)
    ELSE
        LET d == PunyDecodeNumber(extended, extpos, bias, 0, 1, 0) IN
        IF ~d.ok THEN Fail
        ELSE
            LET delta == d.v[2]
                pos1 == pos + delta + 1
                char1 == char + (pos1 \div (Len(base) + 1))
                pos2 == pos1 % (Len(base) + 1)
                base1 == SubSeq(base, 1, pos2) \o <<char1>> \o SubSeq(base, pos2 + 1, Len(base))
            IN
            IF char1 > MaxCodePoint THEN Fail
            ELSE PunyInsertionSort(base1, extended, char1, pos2,
                                   PunyAdapt(delta, extpos = 0, Len(base1)), d.v[1])

\* the index of the last '-' of a string, 0-based, -1 when absent (bytes.rfind)
RECURSIVE RFind(_, _)
RFind(s, ch) ==
    IF s = <<>> THEN -1 ELSE IF Last(s) = ch THEN Len(s) - 1 ELSE RFind(Front(s), ch)

\* label.encode().decode("punycode")
PunycodeDecode(text) ==
    IF ~IsAscii(text) THEN Fail
    ELSE
        LET pos == RFind(text, MINUS)
            base == IF pos = -1 THEN <<>> ELSE SubSeq(text, 1, pos)
            ext == IF pos = -1 THEN text ELSE From(text, pos + 1)
            extended == [i \in 1..Len(ext) |-> UpperChar(ext[i])]
        IN PunyInsertionSort(base, extended, 128, -1, 72, 0)

(***************************************************************************)
(* UTS #46 processing (_process, _validate_label, _to_ascii).              *)
(* The mapping table holds the entries of the ASCII range and of a few     *)
(* other code points, one or more per status; a code point without an entry *)
(* is an unrecognized code point, as in the code.  On these code points    *)
(* NFC normalisation is the identity, none is a Mark, a joiner or of a     *)
(* right-to-left class.                                                    *)
(***************************************************************************)
NBSP == 160
SHY == 173
EACUTE_UPPER == 201
SHARP_S == 223
AMACRON_LOWER == 257
REPLACEMENT_CHAR == 65533

Entry(status, mapping) == [status |-> status, mapping |-> mapping]

IDNA_MAPPING_TABLE ==
    [cp \in (0..128) \cup {NBSP, SHY, EACUTE_UPPER, SHARP_S, EACUTE, AMACRON,
                           AMACRON_LOWER, REPLACEMENT_CHAR} |->
        CASE cp \in {MINUS, DOT} \cup ASCII_DIGIT \cup ASCII_LOWER_ALPHA -> Entry("valid", <<>>)
          [] cp \in ASCII_UPPER_ALPHA -> Entry("mapped", <<cp + 32>>)
          [] cp < 128 -> Entry("disallowed_STD3_valid", <<>>)
          [] cp = 128 -> Entry("disallowed", <<>>)
          [] cp = NBSP -> Entry("disallowed_STD3_mapped", <<SP>>)
          [] cp = SHY -> Entry("ignored", <<>>)
          [] cp = EACUTE_UPPER -> Entry("mapped", <<EACUTE>>)
          [] cp = SHARP_S -> Entry("deviation", <<LS, LS>>)
          [] cp = EACUTE -> Entry("valid", <<>>)
          [] cp = AMACRON -> Entry("mapped", <<AMACRON_LOWER>>)
          [] cp = AMACRON_LOWER -> Entry("valid", <<>>)
          [] OTHER -> Entry("disallowed", <<>>)]

XN_PREFIX == <<LX, 110, MINUS, MINUS>>

\* _validate_label: TRUE when the label passes, FALSE when it raises
ValidateLabel(label, check_hyphens, transitional_processing, use_std3_ascii_rules) ==
    LET length == Len(label) IN
    /\ ~(check_hyphens /\ length >= 4 /\ SubSeq(label, 4, 4) = <<MINUS, MINUS>>)
    /\ ~(check_hyphens /\ StartsWith(label, <<MINUS>>))
    /\ ~(check_hyphens /\ EndsWith(label, <<MINUS>>))
    /\ DOT \notin Range(label)
    /\ \A code_point \in Range(label) :
        /\ code_point \in DOMAIN IDNA_MAPPING_TABLE
        /\ LET entry == IDNA_MAPPING_TABLE[code_point] IN
            \/ entry.status = "valid"
            \/ ~use_std3_ascii_rules /\ entry.status = "disallowed_STD3_valid"
            \/ ~transitional_processing /\ entry.status = "deviation"

\* a mapping step that replaces a deviation whatever transitional_processing is
ProcessCodePoint_DeviationAlways(code_point, use_std3_ascii_rules, transitional_processing) ==
    LET entry == IDNA_MAPPING_TABLE[code_point] IN
    IF entry.status = "ignored" THEN <<>>
    ELSE IF entry.status \in {"mapped", "deviation"}
            \/ (~use_std3_ascii_rules /\ entry.status = "disallowed_STD3_mapped")
    THEN entry.mapping
    ELSE <<code_point>>

\* the mapping step of _process on one code point
ProcessCodePoint(code_point, use_std3_ascii_rules, transitional_processing) ==
    LET entry == IDNA_MAPPING_TABLE[code_point] IN
    IF entry.status = "ignored" THEN <<>>
    ELSE IF entry.status = "mapped"
            \/ (~use_std3_ascii_rules /\ entry.status = "disallowed_STD3_mapped")
    THEN entry.mapping
    ELSE IF entry.status = "deviation" /\ transitional_processing THEN entry.mapping
    ELSE <<code_point>>

\* the label step of _process: Ok(label) or Fail
ProcessLabel(label, check_hyphens, transitional_processing, use_std3_ascii_rules) ==
    IF StartsWith(label, XN_PREFIX) THEN
        LET Decoded(d) ==
                IF ~d.ok THEN Fail
                ELSE IF ValidateLabel(d.v, check_hyphens, FALSE, use_std3_ascii_rules) THEN d
                ELSE Fail
        IN Decoded(PunycodeDecode(From(label, 4)))
    ELSE IF ValidateLabel(label, check_hyphens, transitional_processing, use_std3_ascii_rules)
    THEN Ok(label)
    ELSE Fail

\* str.replace(old, new) for a string old of one code point
StrReplace(s, old, new) ==
    Concat([i \in 1..Len(s) |-> IF s[i] = old THEN new ELSE <<s[i]>>])

\* the test of _process on one code point of set(domain_name): TRUE when it raises
ProcessRaises(code_point, use_std3_ascii_rules) ==
    \/ code_point \notin DOMAIN IDNA_MAPPING_TABLE
    \/ IDNA_MAPPING_TABLE[code_point].status = "disallowed"
    \/ /\ use_std3_ascii_rules
       /\ IDNA_MAPPING_TABLE[code_point].status
              \in {"disallowed_STD3_mapped", "disallowed_STD3_valid"}

\* the end of _process, after the loop over set(domain_name): Ok(domain_name) or Fail
ProcessLabels(domain_name, check_hyphens, transitional_processing, use_std3_ascii_rules) ==
    LET Labels(labels) ==
            [i \in 1..Len(labels) |->
                ProcessLabel(labels[i], check_hyphens, transitional_processing,
                             use_std3_ascii_rules)]
        Joined(results) ==
            IF \E i \in 1..Len(results) : ~results[i].ok THEN Fail
            ELSE Ok(Join([i \in 1..Len(results) |-> results[i].v], <<DOT>>))
    IN Joined(Labels(Split(domain_name, DOT)))

\* _process: Ok(domain_name) or Fail.  No mapping of the table holds a code
\* point that is itself replaced, so that replacing the distinct code points
\* one after the other, in whatever order the set gives them, comes to
\* replacing every position by its own mapping
Process(domain_name, use_std3_ascii_rules, check_hyphens, transitional_processing) ==
    IF \E cp \in Range(domain_name) : ProcessRaises(cp, use_std3_ascii_rules)
    THEN Fail
    ELSE
        LET mapped == Concat([i \in 1..Len(domain_name) |->
                ProcessCodePoint(domain_name[i], use_std3_ascii_rules, transitional_processing)])
        IN ProcessLabels(mapped, check_hyphens, transitional_processing,
                         use_std3_ascii_rules)

\* _convert_label
ConvertLabel(label) ==
    IF IsAscii(label) THEN label ELSE XN_PREFIX \o PunycodeEncode(label)

\* a _to_ascii that checks the length of the domain and not those of the labels
ToAscii_NoLabelCheck(domain_name, check_hyphens, use_std3_ascii_rules, transitional_processing, verify_dns_length) ==
    LET Converted(split) == [i \in 1..Len(split) |-> ConvertLabel(split[i])]
        Verified(result, length) ==
            IF verify_dns_length /\ ~(1 <= length /\ length <= 253) THEN Fail
            ELSE Ok(result)
        Joined(labels) ==
            Verified(Join(labels, <<DOT>>), Len(RStrip(Join(labels, <<DOT>>), {DOT})))
        Processed(p) == IF ~p.ok THEN Fail ELSE Joined(Converted(Split(p.v, DOT)))
    IN Processed(Process(domain_name, use_std3_ascii_rules, check_hyphens,
                         transitional_processing))

\* _to_ascii: Ok(domain_name) or Fail
ToAscii(domain_name, check_hyphens, use_std3_ascii_rules, transitional_processing, verify_dns_length) ==
    LET Converted(split) == [i \in 1..Len(split) |-> ConvertLabel(split[i])]
        Verified(labels, result, length) ==
            IF verify_dns_length /\ ~(1 <= length /\ length <= 253) THEN Fail
            ELSE IF verify_dns_length
                    /\ \E i \in 1..Len(labels) : ~(1 <= Len(labels[i]) /\ Len(labels[i]) <= 63)
            THEN Fail
            ELSE Ok(result)
        Joined(labels) ==
            Verified(labels, Join(labels, <<DOT>>), Len(RStrip(Join(labels, <<DOT>>), {DOT})))
        Processed(p) == IF ~p.ok THEN Fail ELSE Joined(Converted(Split(p.v, DOT)))
    IN Processed(Process(domain_name, use_std3_ascii_rules, check_hyphens,
                         transitional_processing))

\* _domain_to_ascii
DomainToAscii(domain, be_strict) ==
    LET Checked(result) ==
            IF ~result.ok THEN Fail
            ELSE IF result.v = <<>> THEN Fail
            ELSE result
    IN Checked(ToAscii(domain, FALSE, be_strict, FALSE, be_strict))

(***************************************************************************)
(* Host parsing.  A host is a string, an integer (IPv4) or a list of eight *)
(* integers (IPv6), as the type of _URL.hostname.                          *)
(***************************************************************************)
HostStr(s) == [t |-> "str", s |-> s, n |-> 0, l |-> <<>>]

HostInt(n) == [t |-> "int", s |-> <<>>, n |-> n, l |-> <<>>]

HostList(l) == [t |-> "list", s |-> <<>>, n |-> 0, l |-> l]

FORBIDDEN_HOST_CODE_POINTS ==
    {0, TAB, LF, CR, SP, HASH, SLASH, COLON, 60, 62, QMARK, AT, LBRACK, BSLASH, RBRACK, 94, PIPE}

FORBIDDEN_DOMAIN_CODE_POINTS == FORBIDDEN_HOST_CODE_POINTS \cup C0_CONTROL \cup {PCT, DEL}

\* urllib.parse.unquote, first step: every %HH becomes its byte; a byte above
\* 0x7F is written as its negation until the bytes are decoded
RECURSIVE UnquoteToBytes(_)
UnquoteToBytes(s) ==
    IF s = <<>> THEN <<>>
    ELSE IF /\ s[1] = PCT /\ Len(s) >= 3
            /\ s[2] \in ASCII_HEX_DIGIT /\ s[3] \in ASCII_HEX_DIGIT
    THEN LET b == HexVal(s[2]) * 16 + HexVal(s[3]) IN
         <<IF b < 128 THEN b ELSE 0 - b>> \o UnquoteToBytes(From(s, 3))
    ELSE <<s[1]>> \o UnquoteToBytes(Tail(s))

IsCont(x) == x < 0 /\ (0 - x) \in 128..191

\* second step: bytes.decode("utf-8", "replace"); an invalid byte becomes
\* U+FFFD
RECURSIVE Utf8DecodeReplace(_)
Utf8DecodeReplace(s) ==
    IF s = <<>> THEN <<>>
    ELSE IF s[1] >= 0 THEN <<s[1]>> \o Utf8DecodeReplace(Tail(s))
    ELSE
        LET b == 0 - s[1] IN
        IF b \in 194..223 /\ Len(s) >= 2 /\ IsCont(s[2]) THEN
            <<(b - 192) * 64 + ((0 - s[2]) - 128)>> \o Utf8DecodeReplace(From(s, 2))
        ELSE IF /\ b \in 224..239 /\ Len(s) >= 3 /\ IsCont(s[2]) /\ IsCont(s[3])
                /\ (b = 224 => (0 - s[2]) >= 160)
                /\ (b = 237 => (0 - s[2]) <= 159)
        THEN <<(b - 224) * 4096 + ((0 - s[2]) - 128) * 64 + ((0 - s[3]) - 128)>>
                 \o Utf8DecodeReplace(From(s, 3))
        ELSE <<REPLACEMENT_CHAR>> \o Utf8DecodeReplace(Tail(s))

\* urllib.parse.unquote
Unquote(s) == Utf8DecodeReplace(UnquoteToBytes(s))

\* _parse_opaque_host
ParseOpaqueHost(input) ==
    IF \E i \in 1..Len(input) : input[i] \in FORBIDDEN_HOST_CODE_POINTS THEN Fail
    ELSE Ok(Utf8PercentEncode(input, C0_CONTROL_PERCENT_ENCODE_SET))

\* a _parse_host that lets the forbidden domain code points pass
ParseHost_Unchecked(input, is_special) ==
    LET Ipv6Host(a) == IF a.ok THEN Ok(HostList(a.v)) ELSE Fail
        OpaqueHost(o) == IF o.ok THEN Ok(HostStr(o.v)) ELSE Fail
        Ipv4Host(n) == IF n.ok THEN Ok(HostInt(n.v)) ELSE Fail
        DomainHost(ascii_domain) ==
            IF ~ascii_domain.ok THEN Fail
            ELSE IF \E i \in 1..Len(ascii_domain.v) :
                        ascii_domain.v[i] \in {}
            THEN Fail
            ELSE IF EndsInNumber(ascii_domain.v) THEN Ipv4Host(ParseIpv4(ascii_domain.v))
            ELSE Ok(HostStr(ascii_domain.v))
    IN
    IF StartsWith(input, <<LBRACK>>) THEN
        IF ~EndsWith(input, <<RBRACK>>) THEN Fail
        ELSE Ipv6Host(ParseIpv6(SubSeq(input, 2, Len(input) - 1)))
    ELSE IF ~is_special THEN OpaqueHost(ParseOpaqueHost(input))
    ELSE DomainHost(DomainToAscii(Unquote(input), FALSE))

\* _parse_host: Ok(host) or Fail
ParseHost(input, is_special) ==
    LET Ipv6Host(a) == IF a.ok THEN Ok(HostList(a.v)) ELSE Fail
        OpaqueHost(o) == IF o.ok THEN Ok(HostStr(o.v)) ELSE Fail
        Ipv4Host(n) == IF n.ok THEN Ok(HostInt(n.v)) ELSE Fail
        DomainHost(ascii_domain) ==
            IF ~ascii_domain.ok THEN Fail
            ELSE IF \E i \in 1..Len(ascii_domain.v) :
                        ascii_domain.v[i] \in FORBIDDEN_DOMAIN_CODE_POINTS
            THEN Fail
            ELSE IF EndsInNumber(ascii_domain.v) THEN Ipv4Host(ParseIpv4(ascii_domain.v))
            ELSE Ok(HostStr(ascii_domain.v))
    IN
    IF StartsWith(input, <<LBRACK>>) THEN
        IF ~EndsWith(input, <<RBRACK>>) THEN Fail
        ELSE Ipv6Host(ParseIpv6(SubSeq(input, 2, Len(input) - 1)))
    ELSE IF ~is_special THEN OpaqueHost(ParseOpaqueHost(input))
    ELSE DomainHost(DomainToAscii(Unquote(input), FALSE))

\* _serialize_host
SerializeHost(host) ==
    IF host.t = "int" THEN SerializeIpv4(host.n)
    ELSE IF host.t = "list" THEN <<LBRACK>> \o SerializeIpv6(host.l) \o <<RBRACK>>
    ELSE host.s

(***************************************************************************)
(* The URL record (_URL).  NoneStr stands for None where a string is       *)
(* expected; a path is a string (opaque) or a list of segments.            *)
(***************************************************************************)
NoneStr == <<None>>

PathStr(s) == [opaque |-> TRUE, s |-> s, segs |-> <<>>]

PathList(segs) == [opaque |-> FALSE, s |-> <<>>, segs |-> segs]

S_FTP == <<LF_, LT_, LP>>
S_FILE == <<LF_, LI, LL, LE>>
S_HTTP == <<LH, LT_, LT_, LP>>
S_HTTPS == <<LH, LT_, LT_, LP, LS>>
S_WS == <<LW, LS>>
S_WSS == <<LW, LS, LS>>
S_LOCALHOST == <<LL, 111, 99, LA, LL, LH, 111, LS, LT_>>

\* _DEFAULT_PORTS
DEFAULT_PORTS ==
    [s \in {S_FTP, S_FILE, S_HTTP, S_HTTPS, S_WS, S_WSS} |->
        CASE s = S_FTP -> 21
          [] s = S_FILE -> None
          [] s = S_HTTP -> 80
          [] s = S_HTTPS -> 443
          [] s = S_WS -> 80
          [] OTHER -> 443]

SPECIAL_SCHEMES == DOMAIN DEFAULT_PORTS

\* a table of default ports without entries
DefaultPort_Unset(scheme) == None

\* _DEFAULT_PORTS.get(scheme)
DefaultPort(scheme) == IF scheme \in SPECIAL_SCHEMES THEN DEFAULT_PORTS[scheme] ELSE None

\* _URL.__init__ and the class attributes of _URL
NewUrl ==
    [scheme |-> <<>>,
     is_special |-> FALSE,
     username |-> <<>>,
     password |-> <<>>,
     hostname |-> HostStr(<<>>),
     port |-> None,
     path |-> PathList(<<>>),
     query |-> NoneStr,
     fragment |-> NoneStr,
     password_token_seen |-> FALSE,
     port_token_seen |-> FALSE,
     default_port_seen |-> FALSE,
     path_token_seen |-> FALSE]

\* a setter of _URL.scheme that leaves is_special as it was
SetScheme_KeepSpecial(url, value) == [url EXCEPT !.scheme = value]

\* the setter of _URL.scheme
SetScheme(url, value) ==
    [url EXCEPT !.scheme = value, !.is_special = value \in SPECIAL_SCHEMES]

\* _URL.has_opaque_path
HasOpaquePath(url) == url.path.opaque

SCHEME_CHARS == ASCII_ALPHANUMERIC \cup {43, MINUS, DOT}

\* _is_windows_drive_letter
IsWindowsDriveLetter(input) ==
    Len(input) = 2 /\ input[1] \in ASCII_ALPHA /\ input[2] \in {COLON, PIPE}

\* _starts_with_windows_drive_letter
StartsWithWindowsDriveLetter(input) ==
    /\ Len(input) >= 2
    /\ IsWindowsDriveLetter(SubSeq(input, 1, 2))
    /\ (Len(input) = 2 \/ input[3] \in {SLASH, BSLASH, QMARK, HASH})

PCT_2E == {<<PCT, D2, LE>>, <<PCT, D2, UE>>}

\* a test that knows the spelling ".." only
IsDoubleDotPathSegment_Plain(input) == input = <<DOT, DOT>>

\* _is_double_dot_path_segment
IsDoubleDotPathSegment(input) ==
    input \in {<<DOT, DOT>>} \cup {<<DOT>> \o e : e \in PCT_2E} \cup {e \o <<DOT>> : e \in PCT_2E}
              \cup {e \o f : e \in PCT_2E, f \in PCT_2E}

\* _is_single_dot_path_segment
IsSingleDotPathSegment(input) == input \in {<<DOT>>} \cup PCT_2E

\* a _shorten_path that removes the last segment whatever it is
ShortenPath_AlwaysPops(url) ==
    LET path == url.path.segs IN
    [url EXCEPT !.path = PathList(IF path = <<>> THEN <<>> ELSE Front(path))]

\* _shorten_path
ShortenPath(url) ==
    LET path == url.path.segs IN
    IF url.scheme = S_FILE /\ Len(path) = 1 /\ IsWindowsDriveLetter(path[1]) THEN url
    ELSE [url EXCEPT !.path = PathList(IF path = <<>> THEN <<>> ELSE Front(path))]

(***************************************************************************)
(* The parsing state machine (_parse_url).                                 *)
(*                                                                         *)
(* x is what stays fixed during the loop: the preprocessed input, the      *)
(* parsed base (or none) and the five percent-encode sets.  p holds the    *)
(* local variables of the loop; p.c keeps the code point read last, as the *)
(* variable c of the code does at the end of the input.  Each operator     *)
(* St_... is the branch of one state; re is reached_end.                   *)
(***************************************************************************)
States ==
    <<"SCHEME_START", "SCHEME", "NO_SCHEME", "SPECIAL_RELATIVE_OR_AUTHORITY",
      "PATH_OR_AUTHORITY", "RELATIVE", "RELATIVE_SLASH", "SPECIAL_AUTHORITY_SLASHES",
      "SPECIAL_AUTHORITY_IGNORE_SLASHES", "AUTHORITY", "HOST", "PORT", "FILE",
      "FILE_SLASH", "FILE_HOST", "PATH_START", "PATH", "OPAQUE_PATH", "QUERY", "FRAGMENT">>

\* the number declared for a state (SCHEME_START = 0 .. FRAGMENT = 19)
StateNum(s) == (CHOOSE i \in 1..Len(States) : States[i] = s) - 1

NoBase == [present |-> FALSE, url |-> NewUrl]

Unbound == None

\* the local variables of _parse_url before the loop
InitialP(encoding) ==
    [state |-> "SCHEME_START",
     pointer |-> 0,
     buffer |-> <<>>,
     url |-> NewUrl,
     at_sign_seen |-> FALSE,
     inside_brackets |-> FALSE,
     skip_authority_shortcut |-> FALSE,
     c |-> Unbound,
     encoding |-> encoding,
     error |-> ""]

\* "raise ValueError"
Raise(p) == [p EXCEPT !.error = "ValueError"]

\* an IndexError raised by indexing an empty list
RaiseIndexError(p) == [p EXCEPT !.error = "IndexError"]

\* input[i] of Python: a negative index counts from the end
At(input, i) == IF i < 0 THEN input[Len(input) + i + 1] ELSE input[i + 1]

\* "url.is_special and c == '\\'"
\* a test that takes no backslash for a delimiter
SpecialBackslash_Never(p) == FALSE

SpecialBackslash(p) == p.url.is_special /\ p.c = BSLASH

\* "reached_end or c in '/?#' or url.is_special and c == '\\'"
EndOfAuthority(p, re) == re \/ p.c \in {SLASH, QMARK, HASH} \/ SpecialBackslash(p)

St_SCHEME_START(x, p, re) ==
    IF ~re /\ p.c \in ASCII_ALPHA
    THEN [p EXCEPT !.buffer = Append(@, p.c), !.state = "SCHEME"]
    ELSE [p EXCEPT !.state = "NO_SCHEME", !.pointer = @ - 1]

St_SCHEME(x, p, re) ==
    IF ~re /\ p.c \in SCHEME_CHARS THEN [p EXCEPT !.buffer = Append(@, p.c)]
    ELSE IF ~re /\ p.c = COLON THEN
        LET url == SetScheme(p.url, Lower(p.buffer))
            q == [p EXCEPT !.url = url, !.buffer = <<>>]
        IN
        IF url.scheme = S_FILE THEN [q EXCEPT !.state = "FILE"]
        ELSE IF url.is_special THEN
            IF x.base.present /\ x.base.url.scheme = url.scheme
            THEN [q EXCEPT !.state = "SPECIAL_RELATIVE_OR_AUTHORITY"]
            ELSE [q EXCEPT !.state = "SPECIAL_AUTHORITY_SLASHES"]
        ELSE IF p.pointer + 1 < Len(x.input) /\ At(x.input, p.pointer + 1) = SLASH
        THEN [q EXCEPT !.state = "PATH_OR_AUTHORITY", !.pointer = @ + 1]
        ELSE [q EXCEPT !.url.path = PathStr(<<>>), !.state = "OPAQUE_PATH"]
    ELSE [p EXCEPT !.buffer = <<>>, !.state = "NO_SCHEME", !.pointer = -1]

St_NO_SCHEME(x, p, re) ==
    IF ~x.base.present THEN Raise(p)
    ELSE IF HasOpaquePath(x.base.url) THEN
        IF ~re /\ p.c # HASH THEN Raise(p)
        ELSE [p EXCEPT !.url = [SetScheme(p.url, x.base.url.scheme) EXCEPT
                                   !.path = x.base.url.path,
                                   !.query = x.base.url.query,
                                   !.fragment = <<>>],
                       !.state = "FRAGMENT"]
    ELSE [p EXCEPT !.state = IF x.base.url.scheme # S_FILE THEN "RELATIVE" ELSE "FILE",
                   !.pointer = @ - 1]

St_SPECIAL_RELATIVE_OR_AUTHORITY(x, p, re) ==
    IF ~re /\ p.c = SLASH /\ p.pointer + 1 < Len(x.input) /\ At(x.input, p.pointer + 1) = SLASH
    THEN [p EXCEPT !.state = "SPECIAL_AUTHORITY_IGNORE_SLASHES", !.pointer = @ + 1]
    ELSE [p EXCEPT !.state = "RELATIVE", !.pointer = @ - 1]

St_PATH_OR_AUTHORITY(x, p, re) ==
    IF ~re /\ p.c = SLASH THEN [p EXCEPT !.state = "AUTHORITY"]
    ELSE [p EXCEPT !.state = "PATH", !.pointer = @ - 1]

\* a RELATIVE state that keeps the query of the base before a path
St_RELATIVE_KeepsQuery(x, p, re) ==
    LET b == x.base.url
        u0 == SetScheme(p.url, b.scheme)
    IN
    IF ~re /\ (p.c = SLASH \/ (u0.is_special /\ p.c = BSLASH))
    THEN [p EXCEPT !.url = u0, !.state = "RELATIVE_SLASH"]
    ELSE
        LET u1 == [u0 EXCEPT !.username = b.username, !.password = b.password,
                             !.hostname = b.hostname, !.port = b.port,
                             !.path = b.path, !.query = b.query]
        IN
        IF ~re /\ p.c = QMARK THEN [p EXCEPT !.url = [u1 EXCEPT !.query = <<>>], !.state = "QUERY"]
        ELSE IF ~re /\ p.c = HASH THEN
            [p EXCEPT !.url = [u1 EXCEPT !.fragment = <<>>], !.state = "FRAGMENT"]
        ELSE IF ~re THEN
            [p EXCEPT !.url = ShortenPath(u1),
                      !.state = "PATH", !.pointer = @ - 1]
        ELSE [p EXCEPT !.url = u1]

St_RELATIVE(x, p, re) ==
    LET b == x.base.url
        u0 == SetScheme(p.url, b.scheme)
    IN
    IF ~re /\ (p.c = SLASH \/ (u0.is_special /\ p.c = BSLASH))
    THEN [p EXCEPT !.url = u0, !.state = "RELATIVE_SLASH"]
    ELSE
        LET u1 == [u0 EXCEPT !.username = b.username, !.password = b.password,
                             !.hostname = b.hostname, !.port = b.port,
                             !.path = b.path, !.query = b.query]
        IN
        IF ~re /\ p.c = QMARK THEN [p EXCEPT !.url = [u1 EXCEPT !.query = <<>>], !.state = "QUERY"]
        ELSE IF ~re /\ p.c = HASH THEN
            [p EXCEPT !.url = [u1 EXCEPT !.fragment = <<>>], !.state = "FRAGMENT"]
        ELSE IF ~re THEN
            [p EXCEPT !.url = ShortenPath([u1 EXCEPT !.query = NoneStr]),
                      !.state = "PATH", !.pointer = @ - 1]
        ELSE [p EXCEPT !.url = u1]

St_RELATIVE_SLASH(x, p, re) ==
    LET b == x.base.url IN
    IF p.url.is_special /\ ~re /\ p.c \in {SLASH, BSLASH}
    THEN [p EXCEPT !.state = "SPECIAL_AUTHORITY_IGNORE_SLASHES"]
    ELSE IF ~re /\ p.c = SLASH THEN [p EXCEPT !.state = "AUTHORITY"]
    ELSE [p EXCEPT !.url = [@ EXCEPT !.username = b.username, !.password = b.password,
                                     !.hostname = b.hostname, !.port = b.port],
                   !.state = "PATH", !.pointer = @ - 1]

St_SPECIAL_AUTHORITY_SLASHES(x, p, re) ==
    IF ~re /\ p.c = SLASH /\ p.pointer + 1 < Len(x.input) /\ At(x.input, p.pointer + 1) = SLASH
    THEN [p EXCEPT !.state = "SPECIAL_AUTHORITY_IGNORE_SLASHES", !.pointer = @ + 1]
    ELSE [p EXCEPT !.state = "SPECIAL_AUTHORITY_IGNORE_SLASHES", !.pointer = @ - 1]

\* a state that skips '/' and no '\\'
St_SPECIAL_AUTHORITY_IGNORE_SLASHES_OnlySlash(x, p, re) ==
    IF re \/ p.c # SLASH
    THEN [p EXCEPT !.state = "AUTHORITY", !.pointer = @ - 1]
    ELSE p

St_SPECIAL_AUTHORITY_IGNORE_SLASHES(x, p, re) ==
    IF re \/ p.c \notin {SLASH, BSLASH}
    THEN [p EXCEPT !.state = "AUTHORITY", !.pointer = @ - 1]
    ELSE p

\* a loop over the userinfo buffer that drops every ':'
RECURSIVE UserinfoLoop_EveryColon(_, _, _, _)
UserinfoLoop_EveryColon(buffer, i, url, encode_set) ==
    IF i >= Len(buffer) THEN url
    ELSE IF buffer[i + 1] = COLON
    THEN UserinfoLoop_EveryColon(buffer, i + 1, [url EXCEPT !.password_token_seen = TRUE], encode_set)
    ELSE
        LET encoded_code_points == IdempotentUtf8PercentEncode(buffer, i, encode_set) IN
        IF url.password_token_seen
        THEN UserinfoLoop_EveryColon(buffer, i + 1, [url EXCEPT !.password = @ \o encoded_code_points],
                          encode_set)
        ELSE UserinfoLoop_EveryColon(buffer, i + 1, [url EXCEPT !.username = @ \o encoded_code_points],
                          encode_set)

\* the loop over the userinfo buffer in the AUTHORITY state; i is 0-based
RECURSIVE UserinfoLoop(_, _, _, _)
UserinfoLoop(buffer, i, url, encode_set) ==
    IF i >= Len(buffer) THEN url
    ELSE IF buffer[i + 1] = COLON /\ ~url.password_token_seen
    THEN UserinfoLoop(buffer, i + 1, [url EXCEPT !.password_token_seen = TRUE], encode_set)
    ELSE
        LET encoded_code_points == IdempotentUtf8PercentEncode(buffer, i, encode_set) IN
        IF url.password_token_seen
        THEN UserinfoLoop(buffer, i + 1, [url EXCEPT !.password = @ \o encoded_code_points],
                          encode_set)
        ELSE UserinfoLoop(buffer, i + 1, [url EXCEPT !.username = @ \o encoded_code_points],
                          encode_set)

\* an AUTHORITY state that finds '@' ahead and does not remember that it looked
St_AUTHORITY_LooksAgain(x, p, re) ==
    IF Find(x.input, AT, p.pointer) = -1
    THEN [p EXCEPT !.state = "HOST", !.pointer = @ - 1]
    ELSE [p EXCEPT !.pointer = @ - 1]

\* an AUTHORITY state that rewinds by len(buffer), onto the first code point
\* of the host
St_AUTHORITY_ShortRewind(x, p, re) ==
    IF ~p.skip_authority_shortcut THEN
        IF Find(x.input, AT, p.pointer) = -1
        THEN [p EXCEPT !.state = "HOST", !.pointer = @ - 1]
        ELSE [p EXCEPT !.skip_authority_shortcut = TRUE, !.pointer = @ - 1]
    ELSE IF ~re /\ p.c = AT THEN
        LET buffer == IF p.at_sign_seen THEN <<PCT, D4, D0>> \o p.buffer ELSE p.buffer IN
        [p EXCEPT !.at_sign_seen = TRUE,
                  !.url = UserinfoLoop(buffer, 0, p.url, x.sets.userinfo),
                  !.buffer = <<>>]
    ELSE IF EndOfAuthority(p, re) THEN
        IF p.at_sign_seen /\ p.buffer = <<>> THEN Raise(p)
        ELSE [p EXCEPT !.pointer = @ - Len(p.buffer), !.buffer = <<>>, !.state = "HOST"]
    ELSE [p EXCEPT !.buffer = Append(@, p.c)]

St_AUTHORITY(x, p, re) ==
    IF ~p.skip_authority_shortcut THEN
        IF Find(x.input, AT, p.pointer) = -1
        THEN [p EXCEPT !.state = "HOST", !.pointer = @ - 1]
        ELSE [p EXCEPT !.skip_authority_shortcut = TRUE, !.pointer = @ - 1]
    ELSE IF ~re /\ p.c = AT THEN
        LET buffer == IF p.at_sign_seen THEN <<PCT, D4, D0>> \o p.buffer ELSE p.buffer IN
        [p EXCEPT !.at_sign_seen = TRUE,
                  !.url = UserinfoLoop(buffer, 0, p.url, x.sets.userinfo),
                  !.buffer = <<>>]
    ELSE IF EndOfAuthority(p, re) THEN
        IF p.at_sign_seen /\ p.buffer = <<>> THEN Raise(p)
        ELSE [p EXCEPT !.pointer = @ - (Len(p.buffer) + 1), !.buffer = <<>>, !.state = "HOST"]
    ELSE [p EXCEPT !.buffer = Append(@, p.c)]

St_HOST(x, p, re) ==
    IF ~re /\ p.c = COLON /\ ~p.inside_brackets THEN
        IF p.buffer = <<>> THEN Raise(p)
        ELSE
            LET ToPort(host) ==
                    IF ~host.ok THEN Raise(p)
                    ELSE [p EXCEPT !.url = [@ EXCEPT !.hostname = host.v,
                                                     !.port_token_seen = TRUE],
                                   !.buffer = <<>>, !.state = "PORT"]
            IN ToPort(ParseHost(p.buffer, p.url.is_special))
    ELSE IF EndOfAuthority(p, re) THEN
        LET q == [p EXCEPT !.pointer = @ - 1] IN
        IF p.url.is_special /\ p.buffer = <<>> THEN Raise(q)
        ELSE
            LET ToPathStart(host) ==
                    IF ~host.ok THEN Raise(q)
                    ELSE [q EXCEPT !.url.hostname = host.v, !.buffer = <<>>,
                                   !.state = "PATH_START"]
            IN ToPathStart(ParseHost(p.buffer, p.url.is_special))
    ELSE
        [p EXCEPT !.inside_brackets = IF p.c = LBRACK THEN TRUE
                                      ELSE IF p.c = RBRACK THEN FALSE ELSE @,
                  !.buffer = Append(@, p.c)]

St_PORT(x, p, re) ==
    IF ~re /\ p.c \in ASCII_DIGIT THEN [p EXCEPT !.buffer = Append(@, p.c)]
    ELSE IF EndOfAuthority(p, re) THEN
        IF p.buffer # <<>> THEN
            LET port == IntAcc(p.buffer, 10, 0) IN
            IF port > 65535 THEN Raise(p)
            ELSE
                LET stored == IF DefaultPort(p.url.scheme) = port THEN None ELSE port IN
                [p EXCEPT !.url = [@ EXCEPT !.port = stored,
                                            !.default_port_seen = (stored = None)],
                          !.buffer = <<>>, !.state = "PATH_START", !.pointer = @ - 1]
        ELSE [p EXCEPT !.state = "PATH_START", !.pointer = @ - 1]
    ELSE Raise(p)

St_FILE(x, p, re) ==
    LET b == x.base.url
        u0 == [SetScheme(p.url, S_FILE) EXCEPT !.hostname = HostStr(<<>>)]
    IN
    IF ~re /\ p.c \in {SLASH, BSLASH} THEN [p EXCEPT !.url = u0, !.state = "FILE_SLASH"]
    ELSE IF x.base.present /\ b.scheme = S_FILE THEN
        LET u1 == [u0 EXCEPT !.hostname = b.hostname, !.path = b.path, !.query = b.query] IN
        IF ~re /\ p.c = QMARK THEN [p EXCEPT !.url = [u1 EXCEPT !.query = <<>>], !.state = "QUERY"]
        ELSE IF ~re /\ p.c = HASH THEN
            [p EXCEPT !.url = [u1 EXCEPT !.fragment = <<>>], !.state = "FRAGMENT"]
        ELSE IF ~re THEN
            LET u2 == [u1 EXCEPT !.query = NoneStr]
                u3 == IF ~StartsWithWindowsDriveLetter(From(x.input, p.pointer))
                      THEN ShortenPath(u2)
                      ELSE [u2 EXCEPT !.path = PathList(<<>>)]
            IN [p EXCEPT !.url = u3, !.state = "PATH", !.pointer = @ - 1]
        ELSE [p EXCEPT !.url = u1]
    ELSE [p EXCEPT !.url = u0, !.state = "PATH", !.pointer = @ - 1]

St_FILE_SLASH(x, p, re) ==
    LET b == x.base.url IN
    IF ~re /\ p.c \in {SLASH, BSLASH} THEN [p EXCEPT !.state = "FILE_HOST"]
    ELSE IF x.base.present /\ b.scheme = S_FILE THEN
        LET u1 == [p.url EXCEPT !.hostname = b.hostname]
            starts == StartsWithWindowsDriveLetter(From(x.input, p.pointer))
            u2 == IF ~starts /\ IsWindowsDriveLetter(b.path.segs[1])
                  THEN [u1 EXCEPT !.path = PathList(Append(u1.path.segs, b.path.segs[1]))]
                  ELSE u1
        IN
        IF ~starts /\ b.path.segs = <<>> THEN RaiseIndexError(p)
        ELSE [p EXCEPT !.url = u2, !.state = "PATH", !.pointer = @ - 1]
    ELSE [p EXCEPT !.state = "PATH", !.pointer = @ - 1]

\* a FILE_HOST state that parses a drive letter as a host
St_FILE_HOST_DriveIsHost(x, p, re) ==
    IF re \/ p.c \in {SLASH, BSLASH, QMARK, HASH} THEN
        LET q == [p EXCEPT !.pointer = @ - 1] IN
        IF FALSE THEN [q EXCEPT !.state = "PATH"]
        ELSE IF p.buffer = <<>> THEN
            [q EXCEPT !.url.hostname = HostStr(<<>>), !.state = "PATH_START"]
        ELSE
            LET ToPathStart(host) ==
                    IF ~host.ok THEN Raise(q)
                    ELSE [q EXCEPT !.url.hostname = IF host.v = HostStr(S_LOCALHOST)
                                                     THEN HostStr(<<>>) ELSE host.v,
                                   !.buffer = <<>>, !.state = "PATH_START"]
            IN ToPathStart(ParseHost(p.buffer, p.url.is_special))
    ELSE [p EXCEPT !.buffer = Append(@, p.c)]

St_FILE_HOST(x, p, re) ==
    IF re \/ p.c \in {SLASH, BSLASH, QMARK, HASH} THEN
        LET q == [p EXCEPT !.pointer = @ - 1] IN
        IF IsWindowsDriveLetter(p.buffer) THEN [q EXCEPT !.state = "PATH"]
        ELSE IF p.buffer = <<>> THEN
            [q EXCEPT !.url.hostname = HostStr(<<>>), !.state = "PATH_START"]
        ELSE
            LET ToPathStart(host) ==
                    IF ~host.ok THEN Raise(q)
                    ELSE [q EXCEPT !.url.hostname = IF host.v = HostStr(S_LOCALHOST)
                                                     THEN HostStr(<<>>) ELSE host.v,
                                   !.buffer = <<>>, !.state = "PATH_START"]
            IN ToPathStart(ParseHost(p.buffer, p.url.is_special))
    ELSE [p EXCEPT !.buffer = Append(@, p.c)]

St_PATH_START(x, p, re) ==
    IF p.url.is_special THEN
        [p EXCEPT !.state = "PATH",
                  !.pointer = IF ~re /\ p.c \notin {SLASH, BSLASH} THEN @ - 1 ELSE @]
    ELSE IF ~re THEN
        IF p.c = QMARK THEN [p EXCEPT !.url.query = <<>>, !.state = "QUERY"]
        ELSE IF p.c = HASH THEN [p EXCEPT !.url.fragment = <<>>, !.state = "FRAGMENT"]
        ELSE [p EXCEPT !.state = "PATH", !.pointer = IF p.c # SLASH THEN @ - 1 ELSE @]
    ELSE p

\* "c != '/' and not (url.is_special and c == '\\')", on the c read last
NotASlash(p) == p.c # SLASH /\ ~SpecialBackslash(p)

St_PATH(x, p, re) ==
    IF re \/ p.c = SLASH \/ SpecialBackslash(p) \/ p.c \in {QMARK, HASH} THEN
        LET segs == p.url.path.segs
            u1 ==
                IF IsDoubleDotPathSegment(p.buffer) THEN
                    LET s == ShortenPath(p.url) IN
                    IF NotASlash(p) THEN [s EXCEPT !.path = PathList(Append(s.path.segs, <<>>))]
                    ELSE s
                ELSE IF IsSingleDotPathSegment(p.buffer) THEN
                    IF NotASlash(p) THEN [p.url EXCEPT !.path = PathList(Append(segs, <<>>))]
                    ELSE p.url
                ELSE
                    LET buffer == IF /\ p.url.scheme = S_FILE /\ segs = <<>>
                                     /\ IsWindowsDriveLetter(p.buffer)
                                  THEN <<p.buffer[1], COLON>> \o From(p.buffer, 2)
                                  ELSE p.buffer
                        token == /\ segs = <<>> /\ buffer = <<>> /\ ~re
                                 /\ p.c \in {QMARK, HASH}
                                 /\ At(x.input, p.pointer - 1) \notin {SLASH, BSLASH}
                    IN [p.url EXCEPT !.path = PathList(Append(segs, buffer)),
                                     !.path_token_seen = IF token THEN TRUE ELSE @]
            q == [p EXCEPT !.url = u1, !.buffer = <<>>]
        IN
        IF ~re /\ p.c = QMARK THEN [q EXCEPT !.url.query = <<>>, !.state = "QUERY"]
        ELSE IF ~re /\ p.c = HASH THEN [q EXCEPT !.url.fragment = <<>>, !.state = "FRAGMENT"]
        ELSE q
    ELSE [p EXCEPT !.buffer = @ \o IdempotentUtf8PercentEncode(x.input, p.pointer, x.sets.path)]

St_OPAQUE_PATH(x, p, re) ==
    IF re THEN p
    ELSE IF p.c = QMARK THEN [p EXCEPT !.url.query = <<>>, !.state = "QUERY"]
    ELSE IF p.c = HASH THEN [p EXCEPT !.url.fragment = <<>>, !.state = "FRAGMENT"]
    ELSE [p EXCEPT !.url.path =
            PathStr(@.s \o Utf8PercentEncode(<<p.c>>, C0_CONTROL_PERCENT_ENCODE_SET))]

\* a QUERY state that falls back to UTF-8 for the special schemes other than
\* ws and wss, and keeps the encoding for the others
St_QUERY_KeepsForOthers(x, p, re) ==
    LET encoding == IF /\ p.encoding # UTF_8_ENCODING
                       /\ (p.url.is_special /\ p.url.scheme \notin {S_WS, S_WSS})
                    THEN UTF_8_ENCODING ELSE p.encoding
        q == [p EXCEPT !.encoding = encoding]
    IN
    IF re \/ p.c = HASH THEN
        LET percent_encode_set == IF p.url.is_special THEN x.sets.special_query
                                  ELSE x.sets.query
            r == [q EXCEPT !.url.query = @ \o PercentEncodeAfterEncoding(
                                p.buffer, encoding, percent_encode_set, FALSE),
                           !.buffer = <<>>]
        IN
        IF ~re /\ p.c = HASH THEN [r EXCEPT !.url.fragment = <<>>, !.state = "FRAGMENT"]
        ELSE r
    ELSE [q EXCEPT !.buffer = Append(@, p.c)]

St_QUERY(x, p, re) ==
    LET encoding == IF /\ p.encoding # UTF_8_ENCODING
                       /\ (~p.url.is_special \/ p.url.scheme \in {S_WS, S_WSS})
                    THEN UTF_8_ENCODING ELSE p.encoding
        q == [p EXCEPT !.encoding = encoding]
    IN
    IF re \/ p.c = HASH THEN
        LET percent_encode_set == IF p.url.is_special THEN x.sets.special_query
                                  ELSE x.sets.query
            r == [q EXCEPT !.url.query = @ \o PercentEncodeAfterEncoding(
                                p.buffer, encoding, percent_encode_set, FALSE),
                           !.buffer = <<>>]
        IN
        IF ~re /\ p.c = HASH THEN [r EXCEPT !.url.fragment = <<>>, !.state = "FRAGMENT"]
        ELSE r
    ELSE [q EXCEPT !.buffer = Append(@, p.c)]

\* a FRAGMENT state that takes a '?' for the start of a query
St_FRAGMENT_BackToQuery(x, p, re) ==
    IF ~re /\ p.c = QMARK THEN [p EXCEPT !.state = "QUERY"]
    ELSE IF ~re THEN
        [p EXCEPT !.url.fragment =
            @ \o IdempotentUtf8PercentEncode(x.input, p.pointer, x.sets.fragment)]
    ELSE p

\* a FRAGMENT state that keeps the code points as they are read
St_FRAGMENT_Raw(x, p, re) ==
    IF ~re THEN [p EXCEPT !.url.fragment = Append(@, p.c)] ELSE p

St_FRAGMENT(x, p, re) ==
    IF ~re THEN
        [p EXCEPT !.url.fragment =
            @ \o IdempotentUtf8PercentEncode(x.input, p.pointer, x.sets.fragment)]
    ELSE p

\* the branch of the loop body that the current state selects
StateBranch(x, p, re) ==
    CASE p.state = "SCHEME_START" -> St_SCHEME_START(x, p, re)
      [] p.state = "SCHEME" -> St_SCHEME(x, p, re)
      [] p.state = "NO_SCHEME" -> St_NO_SCHEME(x, p, re)
      [] p.state = "SPECIAL_RELATIVE_OR_AUTHORITY" -> St_SPECIAL_RELATIVE_OR_AUTHORITY(x, p, re)
      [] p.state = "PATH_OR_AUTHORITY" -> St_PATH_OR_AUTHORITY(x, p, re)
      [] p.state = "RELATIVE" -> St_RELATIVE(x, p, re)
      [] p.state = "RELATIVE_SLASH" -> St_RELATIVE_SLASH(x, p, re)
      [] p.state = "SPECIAL_AUTHORITY_SLASHES" -> St_SPECIAL_AUTHORITY_SLASHES(x, p, re)
      [] p.state = "SPECIAL_AUTHORITY_IGNORE_SLASHES" ->
            St_SPECIAL_AUTHORITY_IGNORE_SLASHES(x, p, re)
      [] p.state = "AUTHORITY" -> St_AUTHORITY(x, p, re)
      [] p.state = "HOST" -> St_HOST(x, p, re)
      [] p.state = "PORT" -> St_PORT(x, p, re)
      [] p.state = "FILE" -> St_FILE(x, p, re)
      [] p.state = "FILE_SLASH" -> St_FILE_SLASH(x, p, re)
      [] p.state = "FILE_HOST" -> St_FILE_HOST(x, p, re)
      [] p.state = "PATH_START" -> St_PATH_START(x, p, re)
      [] p.state = "PATH" -> St_PATH(x, p, re)
      [] p.state = "OPAQUE_PATH" -> St_OPAQUE_PATH(x, p, re)
      [] p.state = "QUERY" -> St_QUERY(x, p, re)
      [] OTHER -> St_FRAGMENT(x, p, re)

\* one iteration of the while loop, up to the test that ends the loop:
\* read c unless the end is reached, then run the branch of the state
LoopBody(x, p) ==
    LET re == p.pointer >= Len(x.input)
        p1 == IF re THEN p ELSE [p EXCEPT !.c = At(x.input, p.pointer)]
    IN StateBranch(x, p1, re)

\* "if pointer >= input_length: break"
LoopExits(x, p) == p.pointer >= Len(x.input)

\* the loop run to its end: Ok(url) or Fail
RECURSIVE RunLoop(_, _)
RunLoop(x, p) ==
    LET Tail_(q) ==
            IF q.error # "" THEN Error(q.error)
            ELSE IF LoopExits(x, q) THEN Ok(q.url)
            ELSE RunLoop(x, [q EXCEPT !.pointer = @ + 1])
    IN Tail_(LoopBody(x, p))

\* _parse_url without base_url: Ok(url) or Fail
ParseUrlNoBase(input, encoding, sets) ==
    LET e == GetOutputEncoding(encoding) IN
    IF ~e.ok THEN Fail
    ELSE RunLoop([input |-> PreprocessUrl(input), base |-> NoBase, sets |-> sets],
                 InitialP(e.v))

\* the recursive call of _parse_url on base_url: [present, url] in Ok, or Fail
ParseBase(base_url, encoding) ==
    IF base_url = NoneStr THEN Ok(NoBase)
    ELSE LET Base(b) == IF b.ok THEN Ok([present |-> TRUE, url |-> b.v]) ELSE b
         IN Base(ParseUrlNoBase(base_url, encoding, StandardSets))

\* _parse_url: Ok(url) or Fail
ParseUrl(input, base_url, encoding, sets) ==
    LET e == GetOutputEncoding(encoding)
        WithBase(b) ==
            IF ~b.ok THEN Error(b.err)
            ELSE IF ~e.ok THEN Fail
            ELSE RunLoop([input |-> PreprocessUrl(input), base |-> b.v, sets |-> sets],
                         InitialP(e.v))
    IN WithBase(ParseBase(base_url, encoding))

(***************************************************************************)
(* The serializer (_serialize_url).  canonicalize is "None", "True" or     *)
(* "False".                                                                *)
(***************************************************************************)
\* "not canonicalize"
NotCanonicalize(canonicalize) == canonicalize \in {"None", "False"}

\* "url.hostname is not None"
HostnameIsNotNone(url) == url.hostname.t \in {"str", "int", "list"}

\* _serialize_url_path
SerializeUrlPath(url, canonicalize) ==
    IF HasOpaquePath(url) THEN url.path.s
    ELSE IF Len(url.path.segs) <= 1 /\ url.path_token_seen /\ NotCanonicalize(canonicalize)
    THEN <<>>
    ELSE Concat([i \in 1..Len(url.path.segs) |-> <<SLASH>> \o url.path.segs[i]])

\* the userinfo part of _serialize_url
SerializeUserinfo(url, canonicalize) ==
    IF url.username # <<>> \/ url.password # <<>> THEN
        url.username
        \o (IF url.password # <<>> THEN <<COLON>> \o url.password
            ELSE IF NotCanonicalize(canonicalize) /\ url.password_token_seen THEN <<COLON>>
            ELSE <<>>)
        \o <<AT>>
    ELSE <<>>

\* a port part that never writes what the record does not hold
SerializePort_Canonical(url, canonicalize) ==
    IF url.port # None THEN <<COLON>> \o DecStr(url.port) ELSE <<>>

\* the port part of _serialize_url
SerializePort(url, canonicalize) ==
    IF url.port # None THEN <<COLON>> \o DecStr(url.port)
    ELSE IF NotCanonicalize(canonicalize) THEN
        IF url.default_port_seen THEN <<COLON>> \o DecStr(DEFAULT_PORTS[url.scheme])
        ELSE IF url.port_token_seen THEN <<COLON>>
        ELSE <<>>
    ELSE <<>>

\* _serialize_url
SerializeUrl(url, exclude_fragment, canonicalize) ==
    url.scheme \o <<COLON>>
    \o (IF HostnameIsNotNone(url) THEN
            <<SLASH, SLASH>> \o SerializeUserinfo(url, canonicalize)
            \o SerializeHost(url.hostname) \o SerializePort(url, canonicalize)
        ELSE IF ~HasOpaquePath(url) /\ Len(url.path.segs) > 1 /\ url.path.segs[1] = <<>>
        THEN <<SLASH, DOT>>
        ELSE <<>>)
    \o SerializeUrlPath(url, canonicalize)
    \o (IF url.query # NoneStr THEN <<QMARK>> \o url.query ELSE <<>>)
    \o (IF ~exclude_fragment /\ url.fragment # NoneStr THEN <<HASH>> \o url.fragment ELSE <<>>)

\* _safe_url: Ok(string) or an error
SafeUrl(input, encoding) ==
    LET Serialized(url) ==
            IF ~url.ok THEN Error(url.err) ELSE Ok(SerializeUrl(url.v, FALSE, "False"))
    IN Serialized(ParseUrl(input, NoneStr, encoding, SafeSets))

(***************************************************************************)
(* The calls the model makes.  An input is a baseline URL, "http://h", in  *)
(* which at most MaxDev of its parts are replaced by another option.       *)
(***************************************************************************)
\* how many parts of a call differ from the baseline
MaxDev == 2

\* what precedes the URL; the first is the baseline
LeadOpts ==
    <<<<>>,                                               \* ""
      <<32>>>>                                            \* " "

\* scheme and what follows its ':'; the first is the baseline
PrefixOpts ==
    <<<<104, 116, 116, 112, 58, 47, 47>>,                 \* "http://"
      <<97, 58>>,                                         \* "a:"
      <<97, 58, 47, 47>>,                                 \* "a://"
      <<97, 58, 47>>,                                     \* "a:/"
      <<102, 105, 108, 101, 58, 47, 47>>,                 \* "file://"
      <<102, 105, 108, 101, 58>>,                         \* "file:"
      <<102, 105, 108, 101, 58, 47>>,                     \* "file:/"
      <<104, 116, 116, 112, 58>>,                         \* "http:"
      <<104, 116, 116, 112, 58, 47>>,                     \* "http:/"
      <<104, 116, 116, 112, 58, 92, 92>>,                 \* "http:\\"
      <<104, 116, 116, 112, 58, 47, 47, 47>>,             \* "http:///"
      <<72, 116, 84, 112, 58, 47, 47>>,                   \* "HtTp://"
      <<104, 116, 116, 112, 115, 58, 47, 47>>,            \* "https://"
      <<119, 115, 58, 47, 47>>,                           \* "ws://"
      <<47, 47>>,                                         \* "//"
      <<>>>>                                              \* ""

\* userinfo with its '@'; the first is the baseline
UserinfoOpts ==
    <<<<>>,                                               \* ""
      <<117, 64>>,                                        \* "u@"
      <<117, 58, 64>>,                                    \* "u:@"
      <<117, 58, 112, 64>>,                               \* "u:p@"
      <<58, 64>>,                                         \* ":@"
      <<64>>,                                             \* "@"
      <<117, 64, 118, 64>>,                               \* "u@v@"
      <<117, 32, 112, 58, 233, 64>>,                      \* "u p:é@"
      <<37, 52, 49, 37, 58, 37, 52, 64>>>>                \* "%41%:%4@"

\* host; the first is the baseline
HostOpts ==
    <<<<104>>,                                            \* "h"
      <<>>,                                               \* ""
      <<72>>,                                             \* "H"
      <<233>>,                                            \* "é"
      <<49, 46, 50>>,                                     \* "1.2"
      <<48, 120, 49, 46, 48, 50>>,                        \* "0x1.02"
      <<50, 53, 54>>,                                     \* "256"
      <<91, 58, 58, 49, 93>>,                             \* "[::1]"
      <<91, 49>>,                                         \* "[1"
      <<104, 32, 104>>,                                   \* "h h"
      <<37, 52, 49>>,                                     \* "%41"
      <<104, 37>>,                                        \* "h%"
      <<120, 110, 45, 45, 57, 99, 97>>,                   \* "xn--9ca"
      <<108, 111, 99, 97, 108, 104, 111, 115, 116>>,      \* "localhost"
      <<67, 58>>>>                                        \* "C:"

\* port with its ':'; the first is the baseline
PortOpts ==
    <<<<>>,                                               \* ""
      <<58>>,                                             \* ":"
      <<58, 56, 48>>,                                     \* ":80"
      <<58, 52, 52, 51>>,                                 \* ":443"
      <<58, 56>>,                                         \* ":8"
      <<58, 48, 56, 48>>,                                 \* ":080"
      <<58, 54, 53, 53, 51, 54>>,                         \* ":65536"
      <<58, 120>>>>                                       \* ":x"

\* path; the first is the baseline
PathOpts ==
    <<<<>>,                                               \* ""
      <<47>>,                                             \* "/"
      <<47, 97>>,                                         \* "/a"
      <<47, 97, 47, 46, 46>>,                             \* "/a/.."
      <<47, 97, 47, 46, 47, 98, 47>>,                     \* "/a/./b/"
      <<47, 46>>,                                         \* "/."
      <<47, 37, 50, 101, 37, 50, 69, 47>>,                \* "/%2e%2E/"
      <<92, 97>>,                                         \* "\a"
      <<47, 47, 98>>,                                     \* "//b"
      <<47, 37, 52, 49, 37>>,                             \* "/%41%"
      <<47, 97, 32, 98>>,                                 \* "/a b"
      <<47, 233>>,                                        \* "/é"
      <<47, 67, 124, 47, 120>>,                           \* "/C|/x"
      <<47, 97, 9, 98>>>>                                 \* "/a<TAB>b"

\* query with its '?'; the first is the baseline
QueryOpts ==
    <<<<>>,                                               \* ""
      <<63>>,                                             \* "?"
      <<63, 113>>,                                        \* "?q"
      <<63, 37, 52, 49, 37>>,                             \* "?%41%"
      <<63, 32>>,                                         \* "? "
      <<63, 233>>,                                        \* "?é"
      <<63, 39>>>>                                        \* "?'"

\* fragment with its '#'; the first is the baseline
FragmentOpts ==
    <<<<>>,                                               \* ""
      <<35>>,                                             \* "#"
      <<35, 102>>,                                        \* "#f"
      <<35, 37, 52, 49, 37>>,                             \* "#%41%"
      <<35, 32>>,                                         \* "# "
      <<35, 233>>>>                                       \* "#é"

\* what follows the URL; the first is the baseline
TrailOpts ==
    <<<<>>,                                               \* ""
      <<10>>>>                                            \* "<LF>"

\* base_url; the first is None
BaseOpts ==
    <<NoneStr,                                            \* None
      <<104, 116, 116, 112, 58, 47, 47, 98, 47, 112, 47, 113, 63, 114, 35, 115>>,\* "http://b/p/q?r#s"
      <<104, 116, 116, 112, 58, 47, 47, 117, 58, 119, 64, 98, 58, 56, 47, 112>>,\* "http://u:w@b:8/p"
      <<102, 105, 108, 101, 58, 47, 47, 47, 67, 58, 47, 100, 47, 101>>,\* "file:///C:/d/e"
      <<102, 105, 108, 101, 58, 47, 47, 104>>,            \* "file://h"
      <<97, 58, 111, 63, 114>>,                           \* "a:o?r"
      <<97, 58, 47, 47, 98, 47, 99>>>>                    \* "a://b/c"

\* encoding labels
EncodingOpts == <<"utf-8", "latin1", "utf-16le", "bogus">>

\* the function called and its base_url: safe_url takes no base_url
CallOpts ==
    [i \in 1..(Len(BaseOpts) + 1) |->
        IF i = 1 THEN [fn |-> "safe_url", base_url |-> NoneStr]
        ELSE [fn |-> "parse_url", base_url |-> BaseOpts[i - 1]]]

\* the parts of the input string, in the order they are concatenated
InputParts ==
    <<LeadOpts, PrefixOpts, UserinfoOpts, HostOpts, PortOpts, PathOpts, QueryOpts,
      FragmentOpts, TrailOpts>>

\* the parts of a call: those of the input, then the call, then the encoding
CallParts == InputParts \o <<CallOpts, EncodingOpts>>

\* the choices of one option for each of the parts i..j, exactly d of them off
\* the baseline
RECURSIVE Choices(_, _, _)
Choices(i, j, d) ==
    IF i > j THEN (IF d = 0 THEN {<<>>} ELSE {})
    ELSE {<<1>> \o t : t \in Choices(i + 1, j, d)}
         \cup (IF d = 0 THEN {}
               ELSE {<<k>> \o t : k \in 2..Len(CallParts[i]), t \in Choices(i + 1, j, d - 1)})

\* the choices for the parts of the input with exactly d of them off the
\* baseline, and those for the call and the encoding with at most d
InputChoices == [d \in 0..MaxDev |-> Choices(1, Len(InputParts), d)]

ArgChoices ==
    [d \in 0..MaxDev |->
        UNION {Choices(Len(InputParts) + 1, Len(CallParts), e) : e \in 0..d}]

\* the input string of a choice
InputOf(ch) == Concat([i \in 1..Len(InputParts) |-> InputParts[i][ch[i]]])

\* the call of a choice: [fn, input, base_url, encoding]
CallOf(ch, arg) ==
    [fn |-> CallOpts[arg[1]].fn,
     input |-> InputOf(ch),
     base_url |-> CallOpts[arg[1]].base_url,
     encoding |-> EncodingOpts[arg[2]]]

(***************************************************************************)
(* The state machine: one call of safe_url, or of parse_url followed by    *)
(* serialize_url, run one loop iteration at a time.                        *)
(***************************************************************************)
VARIABLES
    call,          \* the arguments: [fn, input, base_url, encoding]
    pc,            \* "call", "loop", "parsed", "done" or "raised"
    x,             \* what the loop reads: [input, base, sets]
    p,             \* the local variables of _parse_url
    canonicalize,  \* the canonicalize argument of _serialize_url
    output         \* the string returned by _serialize_url

vars == <<call, pc, x, p, canonicalize, output>>

\* the encode sets a function passes to _parse_url
SetsOf(fn) == IF fn = "safe_url" THEN SafeSets ELSE StandardSets

Init ==
    /\ \E d \in 0..MaxDev : \E ch \in InputChoices[d] : \E arg \in ArgChoices[MaxDev - d] :
           call = CallOf(ch, arg)
    /\ pc = "call"
    /\ x = [input |-> <<>>, base |-> NoBase, sets |-> StandardSets]
    /\ p = InitialP("")
    /\ canonicalize = "None"
    /\ output = NoneStr

\* _parse_url up to the loop: the base is parsed, the encoding looked up, the
\* input preprocessed
Prologue ==
    /\ pc = "call"
    /\ LET e == GetOutputEncoding(call.encoding)
           WithBase(b) ==
               IF ~b.ok THEN
                   /\ pc' = "raised"
                   /\ p' = [p EXCEPT !.error = b.err]
                   /\ x' = x
               ELSE IF ~e.ok THEN
                   /\ pc' = "raised"
                   /\ p' = [p EXCEPT !.error = e.err]
                   /\ x' = x
               ELSE
                   /\ pc' = "loop"
                   /\ p' = InitialP(e.v)
                   /\ x' = [input |-> PreprocessUrl(call.input), base |-> b.v,
                            sets |-> SetsOf(call.fn)]
       IN WithBase(ParseBase(call.base_url, call.encoding))
    /\ UNCHANGED <<call, canonicalize, output>>

\* one iteration of the loop in the given state: the branch of the state, then
\* the test that ends the loop, then "pointer += 1"
\* "reached_end" and the read of c that open an iteration
ReachedEnd == p.pointer >= Len(x.input)

ReadC == IF ReachedEnd THEN p ELSE [p EXCEPT !.c = At(x.input, p.pointer)]

\* what follows the branch of the state, q being the local variables it
\* leaves: an exception ends the call, the end of the input ends the loop,
\* otherwise "pointer += 1"
LoopTail(q) ==
    /\ IF q.error # "" THEN pc' = "raised" /\ p' = q
       ELSE IF LoopExits(x, q) THEN pc' = "parsed" /\ p' = q
       ELSE pc' = "loop" /\ p' = [q EXCEPT !.pointer = @ + 1]
    /\ UNCHANGED <<call, x, canonicalize, output>>

\* one action per state of the parser: one iteration of the loop in that state
SchemeStart ==
    pc = "loop" /\ p.state = "SCHEME_START" /\ LoopTail(St_SCHEME_START(x, ReadC, ReachedEnd))

Scheme == pc = "loop" /\ p.state = "SCHEME" /\ LoopTail(St_SCHEME(x, ReadC, ReachedEnd))

NoScheme == pc = "loop" /\ p.state = "NO_SCHEME" /\ LoopTail(St_NO_SCHEME(x, ReadC, ReachedEnd))

SpecialRelativeOrAuthority ==
    /\ pc = "loop" /\ p.state = "SPECIAL_RELATIVE_OR_AUTHORITY"
    /\ LoopTail(St_SPECIAL_RELATIVE_OR_AUTHORITY(x, ReadC, ReachedEnd))

PathOrAuthority ==
    /\ pc = "loop" /\ p.state = "PATH_OR_AUTHORITY"
    /\ LoopTail(St_PATH_OR_AUTHORITY(x, ReadC, ReachedEnd))

Relative == pc = "loop" /\ p.state = "RELATIVE" /\ LoopTail(St_RELATIVE(x, ReadC, ReachedEnd))

RelativeSlash ==
    pc = "loop" /\ p.state = "RELATIVE_SLASH" /\ LoopTail(St_RELATIVE_SLASH(x, ReadC, ReachedEnd))

SpecialAuthoritySlashes ==
    /\ pc = "loop" /\ p.state = "SPECIAL_AUTHORITY_SLASHES"
    /\ LoopTail(St_SPECIAL_AUTHORITY_SLASHES(x, ReadC, ReachedEnd))

SpecialAuthorityIgnoreSlashes ==
    /\ pc = "loop" /\ p.state = "SPECIAL_AUTHORITY_IGNORE_SLASHES"
    /\ LoopTail(St_SPECIAL_AUTHORITY_IGNORE_SLASHES(x, ReadC, ReachedEnd))

Authority == pc = "loop" /\ p.state = "AUTHORITY" /\ LoopTail(St_AUTHORITY(x, ReadC, ReachedEnd))

Host == pc = "loop" /\ p.state = "HOST" /\ LoopTail(St_HOST(x, ReadC, ReachedEnd))

Port == pc = "loop" /\ p.state = "PORT" /\ LoopTail(St_PORT(x, ReadC, ReachedEnd))

File == pc = "loop" /\ p.state = "FILE" /\ LoopTail(St_FILE(x, ReadC, ReachedEnd))

FileSlash == pc = "loop" /\ p.state = "FILE_SLASH" /\ LoopTail(St_FILE_SLASH(x, ReadC, ReachedEnd))

FileHost == pc = "loop" /\ p.state = "FILE_HOST" /\ LoopTail(St_FILE_HOST(x, ReadC, ReachedEnd))

PathStart == pc = "loop" /\ p.state = "PATH_START" /\ LoopTail(St_PATH_START(x, ReadC, ReachedEnd))

Path == pc = "loop" /\ p.state = "PATH" /\ LoopTail(St_PATH(x, ReadC, ReachedEnd))

OpaquePath ==
    pc = "loop" /\ p.state = "OPAQUE_PATH" /\ LoopTail(St_OPAQUE_PATH(x, ReadC, ReachedEnd))

Query == pc = "loop" /\ p.state = "QUERY" /\ LoopTail(St_QUERY(x, ReadC, ReachedEnd))

Fragment == pc = "loop" /\ p.state = "FRAGMENT" /\ LoopTail(St_FRAGMENT(x, ReadC, ReachedEnd))

\* _serialize_url on the record _parse_url returned: safe_url passes
\* canonicalize=False, a caller of serialize_url any of the three values
Serialize ==
    /\ pc = "parsed"
    /\ \E cz \in (IF call.fn = "safe_url" THEN {"False"} ELSE {"None", "True", "False"}) :
        /\ canonicalize' = cz
        /\ output' = SerializeUrl(p.url, FALSE, cz)
    /\ pc' = "done"
    /\ UNCHANGED <<call, x, p>>

Next ==
    \/ Prologue
    \/ SchemeStart
    \/ Scheme
    \/ NoScheme
    \/ SpecialRelativeOrAuthority
    \/ PathOrAuthority
    \/ Relative
    \/ RelativeSlash
    \/ SpecialAuthoritySlashes
    \/ SpecialAuthorityIgnoreSlashes
    \/ Authority
    \/ Host
    \/ Port
    \/ File
    \/ FileSlash
    \/ FileHost
    \/ PathStart
    \/ Path
    \/ OpaquePath
    \/ Query
    \/ Fragment
    \/ Serialize

Spec == Init /\ [][Next]_vars

(***************************************************************************)
(* The percent-encoders on their own: a string is scanned as the           *)
(* AUTHORITY, PATH and FRAGMENT states scan it (the per-code-point         *)
(* encoder, one position at a time) or as the QUERY state encodes its      *)
(* buffer (the one-shot encoder), and the output is then encoded again.    *)
(***************************************************************************)
\* the longest string encoded
MaxEncLen == 4

\* '%', two hex digits, a letter that is no hex digit, a non-ASCII letter
EncodeAlphabet == {PCT, D4, LE, LX, EACUTE}

\* the strings encoded
RECURSIVE EncodeInputs(_)
EncodeInputs(n) ==
    IF n = 0 THEN {<<>>}
    ELSE EncodeInputs(n - 1)
         \cup {Append(s, c) : s \in {t \in EncodeInputs(n - 1) : Len(t) = n - 1},
                              c \in EncodeAlphabet}

\* the encode set the state of the parser passes to the encoder
EncodeSet ==
    CASE p.state = "AUTHORITY" -> x.sets.userinfo
      [] p.state = "PATH" -> x.sets.path
      [] p.state = "FRAGMENT" -> x.sets.fragment
      [] OTHER -> IF p.url.is_special THEN x.sets.special_query ELSE x.sets.query

InitEncode ==
    /\ \E input \in EncodeInputs(MaxEncLen), sets \in {StandardSets, SafeSets},
          state \in {"AUTHORITY", "PATH", "QUERY", "FRAGMENT"}, special \in BOOLEAN,
          encoding \in {UTF_8_ENCODING, WINDOWS_1252_ENCODING} :
        /\ state # "QUERY" => ~special /\ encoding = UTF_8_ENCODING
        /\ call = [fn |-> "encode", input |-> input, base_url |-> NoneStr,
                   encoding |-> encoding]
        /\ x = [input |-> input, base |-> NoBase, sets |-> sets]
        /\ p = [InitialP(encoding) EXCEPT !.state = state, !.url.is_special = special]
    /\ pc = "encode"
    /\ canonicalize = "None"
    /\ output = NoneStr

\* "buffer += _idempotent_utf_8_percent_encode(input=input, pointer=pointer,
\* encode_set=...)" followed by "pointer += 1"
EncodeCodePoint ==
    /\ pc \in {"encode", "reencode"}
    /\ p.state # "QUERY"
    /\ p.pointer < Len(x.input)
    /\ p' = [p EXCEPT !.buffer = @ \o IdempotentUtf8PercentEncode(x.input, p.pointer, EncodeSet),
                      !.pointer = @ + 1]
    /\ UNCHANGED <<call, pc, x, canonicalize, output>>

\* the end of the scan: the buffer is the output
EncodeEnd ==
    /\ pc \in {"encode", "reencode"}
    /\ p.state # "QUERY"
    /\ p.pointer = Len(x.input)
    /\ output' = p.buffer
    /\ pc' = IF pc = "encode" THEN "encoded" ELSE "reencoded"
    /\ UNCHANGED <<call, x, p, canonicalize>>

\* "url.query += _percent_encode_after_encoding(buffer, encoding=encoding,
\* percent_encode_set=percent_encode_set)"
EncodeQuery ==
    /\ pc \in {"encode", "reencode"}
    /\ p.state = "QUERY"
    /\ output' = PercentEncodeAfterEncoding(x.input, p.encoding, EncodeSet, FALSE)
    /\ pc' = IF pc = "encode" THEN "encoded" ELSE "reencoded"
    /\ UNCHANGED <<call, x, p, canonicalize>>

\* the output is given to the same encoder again
EncodeAgain ==
    /\ pc = "encoded"
    /\ x' = [x EXCEPT !.input = output]
    /\ p' = [p EXCEPT !.pointer = 0, !.buffer = <<>>]
    /\ pc' = "reencode"
    /\ UNCHANGED <<call, canonicalize, output>>

NextEncode ==
    \/ EncodeCodePoint
    \/ EncodeEnd
    \/ EncodeQuery
    \/ EncodeAgain

SpecEncode == InitEncode /\ [][NextEncode]_vars

(***************************************************************************)
(* What the claims read off a URL string.                                  *)
(***************************************************************************)
\* t occurs in s
HasSub(s, t) == \E i \in 0..(Len(s) - Len(t)) : SubSeq(s, i + 1, i + Len(t)) = t

\* the 0-based index of the first code point of s in the set, Len(s) if none
FirstOf(s, set) ==
    IF \E i \in 1..Len(s) : s[i] \in set
    THEN (CHOOSE i \in 1..Len(s) : s[i] \in set /\ \A j \in 1..(i - 1) : s[j] \notin set) - 1
    ELSE Len(s)

\* the scheme of a URL string in lower case, <<>> if it has none
SchemeOf(s) ==
    IF Find(s, COLON, 0) > 0 /\ \A i \in 1..Find(s, COLON, 0) : s[i] \in ASCII_ALPHA
    THEN Lower(SubSeq(s, 1, Find(s, COLON, 0)))
    ELSE <<>>

\* what follows "scheme:"
AfterScheme(s) == From(s, Find(s, COLON, 0) + 1)

\* the schemes that are special and not "file"
SpecialNotFile == SPECIAL_SCHEMES \ {S_FILE}

\* the URL string is "scheme://" and more, the scheme special and not file
HasSpecialAuthority(s) ==
    SchemeOf(s) \in SpecialNotFile /\ StartsWith(AfterScheme(s), <<SLASH, SLASH>>)

\* the authority of such a string, and what follows it
AuthorityOf(s) ==
    SubSeq(From(AfterScheme(s), 2), 1,
           FirstOf(From(AfterScheme(s), 2), {SLASH, BSLASH, QMARK, HASH}))

AfterAuthority(s) ==
    From(From(AfterScheme(s), 2), FirstOf(From(AfterScheme(s), 2), {SLASH, BSLASH, QMARK, HASH}))

\* host and port of an authority: what follows its last '@'
HostPortOf(a) == From(a, RFind(a, AT) + 1)

\* the authority has a ':' that opens a port (a ':' after any ']')
HasPortColon(a) ==
    RFind(HostPortOf(a), COLON) >= 0 /\ RFind(HostPortOf(a), COLON) > RFind(HostPortOf(a), RBRACK)

\* the text of the port, after that ':'
PortTextOf(a) == From(HostPortOf(a), RFind(HostPortOf(a), COLON) + 1)

\* the host of an authority
HostTextOf(a) ==
    IF HasPortColon(a) THEN SubSeq(HostPortOf(a), 1, RFind(HostPortOf(a), COLON))
    ELSE HostPortOf(a)

\* the ':' after a non-empty username with an empty password
EmptyPasswordColon(a) ==
    /\ Find(a, COLON, 0) > 0
    /\ Find(a, AT, 0) = Find(a, COLON, 0) + 1
    /\ RFind(a, AT) = Find(a, AT, 0)

\* the bare ':' after a host, with an empty port
EmptyPortColon(a) == HasPortColon(a) /\ PortTextOf(a) = <<>> /\ HostTextOf(a) # <<>>

\* an explicit port that is the default port of the scheme
ExplicitDefaultPort(s) ==
    /\ HasPortColon(AuthorityOf(s))
    /\ PortTextOf(AuthorityOf(s)) # <<>>
    /\ \A i \in 1..Len(PortTextOf(AuthorityOf(s))) : PortTextOf(AuthorityOf(s))[i] \in ASCII_DIGIT
    /\ IntAcc(PortTextOf(AuthorityOf(s)), 10, 0) = DEFAULT_PORTS[SchemeOf(s)]

\* no '/' between the authority and a '?' or '#'
NoSlashBeforeQueryOrFragment(s) ==
    AfterAuthority(s) # <<>> /\ Head(AfterAuthority(s)) \in {QMARK, HASH}

\* the same for any "scheme://" string whose scheme is not special: the first
\* of '/', '?' and '#' after the "//" is a '?' or a '#'
NoSlashAfterAuthority(s) ==
    /\ SchemeOf(s) # <<>>
    /\ SchemeOf(s) \notin SPECIAL_SCHEMES
    /\ StartsWith(AfterScheme(s), <<SLASH, SLASH>>)
    /\ FirstOf(From(AfterScheme(s), 2), {SLASH, QMARK, HASH}) < Len(From(AfterScheme(s), 2))
    /\ From(AfterScheme(s), 2)[FirstOf(From(AfterScheme(s), 2), {SLASH, QMARK, HASH}) + 1]
           \in {QMARK, HASH}

\* a query that is present and empty
EmptyQuery(s) ==
    /\ FirstOf(s, {QMARK, HASH}) < Len(s)
    /\ s[FirstOf(s, {QMARK, HASH}) + 1] = QMARK
    /\ \/ FirstOf(s, {QMARK, HASH}) + 1 = Len(s)
       \/ s[FirstOf(s, {QMARK, HASH}) + 2] = HASH

\* a fragment that is present and empty
EmptyFragment(s) == Find(s, HASH, 0) = Len(s) - 1 /\ s # <<>>

\* the call has returned a record: _parse_url returned
Parsed == pc \in {"parsed", "done"}

\* the outcome of the call of _parse_url
Outcome == IF pc = "raised" THEN Error(p.error) ELSE Ok(p.url)

\* the fields of a record that the round trip compares
Fields(url) ==
    <<url.scheme, url.username, url.password, url.hostname, url.port, url.path, url.query,
      url.fragment>>

(***************************************************************************)
(* The claims.                                                             *)
(***************************************************************************)
\* C1: sanitisation is idempotent: whenever safe_url returns a string,
\* safe_url of that string (same encoding) returns it too.
C1_Idempotent ==
    (pc = "done" /\ call.fn = "safe_url") => SafeUrl(output, call.encoding) = Ok(output)

\* C2: round trip: when parse_url without a base returns a record, parsing
\* its serialization (same encode sets, same canonicalize) succeeds and gives
\* a record with the same scheme, username, password, host, port, path, query
\* and fragment.
C2_RoundTrip ==
    (pc = "done" /\ call.base_url = NoneStr) =>
        LET again == ParseUrl(output, NoneStr, call.encoding, SetsOf(call.fn)) IN
        again.ok /\ Fields(again.v) = Fields(p.url)

\* what the claim C3 gives for position i (1-based) of the scanned string s:
\* a '%' followed by two hex digits stays, another '%' becomes "%25", and any
\* other code point is what _utf_8_percent_encode makes of it
ExpectedPiece(s, i, set) ==
    IF s[i] = PCT THEN
        IF i + 2 <= Len(s) /\ s[i + 1] \in ASCII_HEX_DIGIT /\ s[i + 2] \in ASCII_HEX_DIGIT
        THEN <<PCT>>
        ELSE <<PCT, D2, 53>>
    ELSE Utf8PercentEncode(<<s[i]>>, set)

\* the same for byte i of the encoded string
ExpectedBytePiece(bytes, i, set) ==
    IF bytes[i] = PCT THEN ExpectedPiece(bytes, i, set)
    ELSE IF Contains(set, bytes[i])
    THEN <<PCT, HexUpper(bytes[i] \div 16), HexUpper(bytes[i] % 16)>>
    ELSE <<bytes[i]>>

\* C3: no double-encoding: with '%' in the encode set, the per-code-point
\* encoder and the one-shot encoder emit a '%' that two hex digits follow as
\* it is and any other '%' as "%25", and encoding the output again returns it
\* unchanged.
C3_NoDoubleEncoding ==
    Contains(EncodeSet, PCT) =>
        /\ p.state # "QUERY" =>
            p.buffer = Concat([i \in 1..p.pointer |-> ExpectedPiece(x.input, i, EncodeSet)])
        /\ (p.state = "QUERY" /\ pc \in {"encoded", "reencoded"}) =>
            \E bytes \in {EncodeBytes(IF pc = "encoded" THEN call.input ELSE x.input,
                                      p.encoding)} :
                output = Concat([i \in 1..Len(bytes) |-> ExpectedBytePiece(bytes, i, EncodeSet)])
        /\ pc = "reencoded" => output = x.input

\* C3 happens: "%4e%" has been encoded to "%4e%25" and that encoded again
C3_Witness ==
    /\ pc = "reencoded"
    /\ call.input = <<PCT, D4, LE, PCT>>
    /\ output = <<PCT, D4, LE, PCT, D2, 53>>
    /\ Contains(EncodeSet, PCT)

\* C4: after a parse the host is absent exactly when the path is opaque or
\* the URL is its scheme alone, and the serializer writes "//" after
\* "scheme:" only when a host is present: a URL with an opaque path is
\* serialized as "scheme:" and the opaque path, without "//".
C4_NoSlashesBeforeOpaquePath ==
    (pc = "done" /\ HasOpaquePath(p.url)) =>
        /\ ~HostnameIsNotNone(p.url)
        /\ ~StartsWith(AfterScheme(output), <<SLASH, SLASH>>)
        /\ StartsWith(AfterScheme(output), p.url.path.s)

C6_NoneIsCanonical ==
    Parsed =>
        /\ SerializeUrl(p.url, FALSE, "None") = SerializeUrl(p.url, FALSE, "True")
        /\ \A canon \in {"None", "True"} :
            SerializeUrl(p.url, FALSE, canon) =
                SerializeUrl([p.url EXCEPT !.password_token_seen = FALSE,
                                           !.port_token_seen = FALSE,
                                           !.default_port_seen = FALSE,
                                           !.path_token_seen = FALSE], FALSE, canon)

\* C7: default-port elision: a parsed record never holds the default port of
\* its scheme; an explicit default port is stored as absent with
\* default_port_seen set, and canonical serialization shows no port.
C7_DefaultPortElided ==
    Parsed =>
        /\ (p.url.is_special /\ p.url.scheme # S_FILE) =>
               p.url.port # DEFAULT_PORTS[p.url.scheme]
        /\ (HasSpecialAuthority(x.input) /\ ExplicitDefaultPort(x.input)) =>
            /\ p.url.port = None
            /\ p.url.default_port_seen
            /\ ~HasPortColon(AuthorityOf(SerializeUrl(p.url, FALSE, "True")))
            /\ (pc = "done" /\ canonicalize = "True") => ~HasPortColon(AuthorityOf(output))

\* C7 happens: a URL with an explicit default port has been serialized with
\* canonicalize=True
C7_Witness ==
    /\ pc = "done"
    /\ canonicalize = "True"
    /\ HasSpecialAuthority(x.input)
    /\ ExplicitDefaultPort(x.input)

\* C8: a call ends with a complete result or with the one kind of error
\* (ValueError), whatever raised it.
C8_OneErrorKind == pc = "raised" => p.error = "ValueError"

\* an IPv4 host with a 0x prefix and a leading zero: "0x1.02"
HexAndLeadingZeroHost == <<48, 120, 49, 46, 48, 50>>

\* "scheme://rest" for a URL string "scheme:" + slashes and backslashes + rest
WithTwoSlashes(s) ==
    SubSeq(s, 1, Find(s, COLON, 0) + 1) \o <<SLASH, SLASH>>
    \o LStrip(AfterScheme(s), {SLASH, BSLASH})

\* C9: validation issues are no failures: without a base, "scheme:" + any
\* number of slashes or backslashes + rest, the scheme special and not file,
\* parses as "scheme://" + rest does; an IPv4 host with a 0x prefix or a
\* leading zero in its parts is accepted.
C9_SlashesAndIpv4Prefixes ==
    /\ (pc \in {"parsed", "done", "raised"} /\ call.base_url = NoneStr
        /\ SchemeOf(x.input) \in SpecialNotFile) =>
            Outcome = ParseUrl(WithTwoSlashes(x.input), NoneStr, call.encoding, SetsOf(call.fn))
    /\ (pc = "loop" /\ p.state = "HOST" /\ p.url.is_special
        /\ p.buffer = HexAndLeadingZeroHost) =>
            ParseHost(p.buffer, TRUE) = Ok(HostInt(16777218))
    /\ (Parsed /\ HasSpecialAuthority(x.input)
        /\ HostTextOf(AuthorityOf(x.input)) = HexAndLeadingZeroHost) =>
            p.url.hostname = HostInt(16777218)

\* C9 happens: "http:/0x1.02" has been parsed
C9_Witness ==
    /\ Parsed
    /\ call.base_url = NoneStr
    /\ SchemeOf(x.input) = S_HTTP
    /\ AfterScheme(x.input) = <<SLASH>> \o HexAndLeadingZeroHost
    /\ p.url.hostname = HostInt(16777218)

\* C10: the string safe_url returns has no space, no C0 control, no DEL and
\* no code point above DEL.
C10_OutputIsSafe ==
    (pc = "done" /\ call.fn = "safe_url") =>
        \A i \in 1..Len(output) : output[i] > SP /\ output[i] < DEL

(***************************************************************************)
(* The operations of _PercentEncodeSet on sets drawn from a small range.   *)
(***************************************************************************)
\* the explicit members and the thresholds of the sets are in 0..MaxSetCodePoint
MaxSetCodePoint == 2

\* the sets _PercentEncodeSet(code_points, greater_than=g) of that range
SmallSets ==
    {PercentEncodeSet(cps, g) : cps \in SUBSET (0..MaxSetCodePoint), g \in 0..MaxSetCodePoint}

\* the code points asked of a set: those of the range and one above every threshold
SmallCodePoints == 0..(MaxSetCodePoint + 1)

\* two operands A and B; the explicit members of B are also the string "chars"
\* given to __add__ and __sub__
InitSets ==
    /\ \E a \in SmallSets, b \in SmallSets : call = [fn |-> "sets", a |-> a, b |-> b]
    /\ pc = "call"
    /\ x = [input |-> <<>>, base |-> NoBase, sets |-> StandardSets]
    /\ p = InitialP("")
    /\ canonicalize = "None"
    /\ output = NoneStr

\* what an operation leaves: its result in output, the operands as they were
SetResult(op, result) ==
    /\ pc = "call"
    /\ pc' = op
    /\ output' = result
    /\ UNCHANGED <<call, x, p, canonicalize>>

\* A | B
SetsOr == SetResult("or", SetOr(call.a, call.b))

\* A & B
SetsAnd == SetResult("and", SetAnd(call.a, call.b))

\* A + chars
SetsAdd == SetResult("add", SetAdd(call.a, call.b.code_points))

\* A - chars
SetsSub == SetResult("sub", SetSub(call.a, call.b.code_points))

NextSets ==
    \/ SetsOr
    \/ SetsAnd
    \/ SetsAdd
    \/ SetsSub

SpecSets == InitSets /\ [][NextSets]_vars

\* C11: union law: (A | B) contains c exactly when A contains c or B contains
\* c, for every code point c.
C11_UnionLaw ==
    pc = "or" =>
        \A c \in SmallCodePoints :
            Contains(output, c) <=> (Contains(call.a, c) \/ Contains(call.b, c))

\* C11 happens: a union of two sets with different thresholds and different
\* explicit members has been computed
C11_Witness ==
    /\ pc = "or"
    /\ call.a.greater_than < call.b.greater_than
    /\ call.b.code_points \ call.a.code_points # {}
    /\ call.a.code_points \ call.b.code_points # {}

\* C12: intersection law: (A & B) contains c exactly when A contains c and B
\* contains c, for every code point c, whatever the thresholds.
C12_IntersectionLaw ==
    pc = "and" =>
        \A c \in SmallCodePoints :
            Contains(output, c) <=> (Contains(call.a, c) /\ Contains(call.b, c))

\* C13: A + chars contains every code point of chars and every code point of
\* A; A - chars contains c exactly when A contains c and c is not in chars or
\* is above the threshold of A; both results have the threshold of A.
C13_AddAndSub ==
    /\ pc = "add" =>
        /\ \A c \in SmallCodePoints :
               (c \in call.b.code_points \/ Contains(call.a, c)) => Contains(output, c)
        /\ output.greater_than = call.a.greater_than
    /\ pc = "sub" =>
        /\ \A c \in SmallCodePoints :
               Contains(output, c) <=>
                   (Contains(call.a, c)
                    /\ (c \notin call.b.code_points \/ c > call.a.greater_than))
        /\ output.greater_than = call.a.greater_than

\* C13 happens: chars that A holds in part have been taken from A
C13_Witness ==
    /\ pc = "sub"
    /\ call.a.code_points \cap call.b.code_points # {}
    /\ call.a.code_points \ call.b.code_points # {}
    /\ call.b.code_points \ call.a.code_points # {}

(***************************************************************************)
(* _serialize_ipv4 and _parse_ipv4 on addresses given by their four bytes. *)
(***************************************************************************)
\* the bytes of the addresses: one, two and three digits, the ends of the range
Ipv4ByteSamples == {0, 1, 8, 9, 10, 99, 100, 127, 128, 255}

\* the most significant byte: the integers of the model are below 2^31
Ipv4FirstByteSamples == {b \in Ipv4ByteSamples : b < 128}

\* the address of four bytes, the most significant first
Ipv4Address(bytes) == ((bytes[1] * 256 + bytes[2]) * 256 + bytes[3]) * 256 + bytes[4]

\* the dotted-decimal string of four bytes
DottedDecimal(bytes) ==
    DecStr(bytes[1]) \o <<DOT>> \o DecStr(bytes[2]) \o <<DOT>> \o DecStr(bytes[3])
    \o <<DOT>> \o DecStr(bytes[4])

InitIpv4 ==
    /\ \E b1 \in Ipv4FirstByteSamples, b2 \in Ipv4ByteSamples, b3 \in Ipv4ByteSamples,
          b4 \in Ipv4ByteSamples :
        call = [fn |-> "ipv4", bytes |-> <<b1, b2, b3, b4>>,
                address |-> Ipv4Address(<<b1, b2, b3, b4>>)]
    /\ pc = "call"
    /\ x = [input |-> <<>>, base |-> NoBase, sets |-> StandardSets]
    /\ p = InitialP("")
    /\ canonicalize = "None"
    /\ output = NoneStr

\* _serialize_ipv4(address)
Ipv4Serialize ==
    /\ pc = "call"
    /\ output' = SerializeIpv4(call.address)
    /\ pc' = "serialized"
    /\ UNCHANGED <<call, x, p, canonicalize>>

\* _parse_ipv4 of the string: the address is kept as the host, an exception ends the call
Ipv4Parse ==
    /\ pc = "serialized"
    /\ x' = [x EXCEPT !.input = output]
    /\ LET Then(r) ==
               IF r.ok THEN p' = [p EXCEPT !.url.hostname = HostInt(r.v)] /\ pc' = "parsed"
               ELSE p' = [p EXCEPT !.error = r.err] /\ pc' = "raised"
       IN Then(ParseIpv4(output))
    /\ UNCHANGED <<call, canonicalize, output>>

\* _serialize_ipv4 of the parsed address
Ipv4SerializeAgain ==
    /\ pc = "parsed"
    /\ output' = SerializeIpv4(p.url.hostname.n)
    /\ pc' = "reserialized"
    /\ UNCHANGED <<call, x, p, canonicalize>>

NextIpv4 ==
    \/ Ipv4Serialize
    \/ Ipv4Parse
    \/ Ipv4SerializeAgain

SpecIpv4 == InitIpv4 /\ [][NextIpv4]_vars

\* C14: IPv4 round trip: _serialize_ipv4(v) is the dotted-decimal string of
\* the four bytes of v, the most significant first; _parse_ipv4 of it returns
\* v; and serializing the parsed canonical string gives the string back.
C14_Ipv4RoundTrip ==
    /\ pc # "raised"
    /\ pc = "serialized" => output = DottedDecimal(call.bytes)
    /\ pc = "parsed" => p.url.hostname = HostInt(call.address)
    /\ pc = "reserialized" => output = x.input /\ output = DottedDecimal(call.bytes)

\* C14 happens: 127.0.10.255 has gone through serialize, parse and serialize
C14_Witness ==
    /\ pc = "reserialized"
    /\ call.bytes = <<127, 0, 10, 255>>
    /\ p.url.hostname = HostInt(2130709247)

(***************************************************************************)
(* _serialize_ipv6 and _parse_ipv6 on addresses of eight pieces and on     *)
(* strings built from pieces of IPv6 text.                                 *)
(***************************************************************************)
\* the pieces of the addresses: zero, one hex digit, several, the largest
Ipv6PieceSamples == {0, 10, 65535}

\* the most pieces of text in a string given to _parse_ipv6
MaxIpv6Tokens == 4

\* pieces of IPv6 text: ":", "::", "0", "1", "fF", "1.", "0.1", ".255"
Ipv6Tokens ==
    {<<COLON>>, <<COLON, COLON>>, <<48>>, <<49>>, <<102, 70>>, <<49, DOT>>,
     <<48, DOT, 49>>, <<DOT, 50, 53, 53>>}

\* the strings of exactly n pieces of text
RECURSIVE Ipv6Strings(_)
Ipv6Strings(n) ==
    IF n = 0 THEN {<<>>}
    ELSE {s \o t : s \in Ipv6Strings(n - 1), t \in Ipv6Tokens}

InitIpv6 ==
    /\ \/ \E a \in [1..8 -> Ipv6PieceSamples] :
            call = [fn |-> "ipv6", kind |-> "address", address |-> a, input |-> <<>>]
       \/ \E n \in 0..MaxIpv6Tokens : \E s \in Ipv6Strings(n) :
            call = [fn |-> "ipv6", kind |-> "string", address |-> <<>>, input |-> s]
    /\ pc = "call"
    /\ x = [input |-> <<>>, base |-> NoBase, sets |-> StandardSets]
    /\ p = InitialP("")
    /\ canonicalize = "None"
    /\ output = NoneStr

\* _serialize_ipv6(address)
Ipv6Serialize ==
    /\ pc = "call"
    /\ call.kind = "address"
    /\ output' = SerializeIpv6(call.address)
    /\ pc' = "serialized"
    /\ UNCHANGED <<call, x, p, canonicalize>>

\* the result of _parse_ipv6: the address is kept as the host, an exception ends the call
Ipv6Parsed(r) ==
    IF r.ok THEN p' = [p EXCEPT !.url.hostname = HostList(r.v)] /\ pc' = "parsed"
    ELSE p' = [p EXCEPT !.error = r.err] /\ pc' = "raised"

\* _parse_ipv6 of the serialized address
Ipv6ParseSerialized ==
    /\ pc = "serialized"
    /\ x' = [x EXCEPT !.input = output]
    /\ Ipv6Parsed(ParseIpv6(output))
    /\ UNCHANGED <<call, canonicalize, output>>

\* _parse_ipv6 of a string
Ipv6ParseString ==
    /\ pc = "call"
    /\ call.kind = "string"
    /\ x' = [x EXCEPT !.input = call.input]
    /\ Ipv6Parsed(ParseIpv6(call.input))
    /\ UNCHANGED <<call, canonicalize, output>>

\* _serialize_ipv6 of the parsed address
Ipv6SerializeAgain ==
    /\ pc = "parsed"
    /\ output' = SerializeIpv6(p.url.hostname.l)
    /\ pc' = "reserialized"
    /\ UNCHANGED <<call, x, p, canonicalize>>

NextIpv6 ==
    \/ Ipv6Serialize
    \/ Ipv6ParseSerialized
    \/ Ipv6ParseString
    \/ Ipv6SerializeAgain

SpecIpv6 == InitIpv6 /\ [][NextIpv6]_vars

\* an address of eight pieces, each in 0..65535
IsIpv6Address(a) == Len(a) = 8 /\ \A i \in 1..8 : a[i] \in 0..65535

\* C15: IPv6 round trip: _parse_ipv6(_serialize_ipv6(a)) is a for every
\* address a of eight pieces; whatever _parse_ipv6 accepts gives eight pieces
\* in 0..65535, and the serialization of that result parses back to the same
\* address, so that it is a fixed point of parse-then-serialize.
C15_Ipv6RoundTrip ==
    /\ call.kind = "address" => pc # "raised"
    /\ pc = "parsed" =>
        /\ IsIpv6Address(p.url.hostname.l)
        /\ call.kind = "address" => p.url.hostname = HostList(call.address)
    /\ pc = "reserialized" =>
        /\ ParseIpv6(output) = Ok(p.url.hostname.l)
        /\ call.kind = "address" => output = x.input

\* C15 happens: "::1.0.1.255" was accepted with a compressed run and an embedded
\* dotted quad, and its address was serialized in canonical form
C15_Witness ==
    /\ pc = "reserialized"
    /\ call.input = <<COLON, COLON, 49, DOT, 48, DOT, 49, DOT, 50, 53, 53>>
    /\ p.url.hostname.l = <<0, 0, 0, 0, 0, 0, 256, 511>>
    /\ output = <<COLON, COLON, 49, 48, 48, COLON, 49, 102, 102>>

\* C16: after every successful parse, with or without a base, the scheme of
\* the record is not empty, starts with an ASCII letter, holds only lowercase
\* ASCII letters, digits, '+', '-' and '.', and is_special is true exactly
\* when the scheme is one of ftp, file, http, https, ws, wss.
C16_SchemeInvariant ==
    Parsed =>
        /\ p.url.scheme # <<>>
        /\ p.url.scheme[1] \in ASCII_ALPHA
        /\ \A i \in 1..Len(p.url.scheme) : p.url.scheme[i] \in SCHEME_CHARS \ ASCII_UPPER_ALPHA
        /\ p.url.is_special <=> p.url.scheme \in {S_FTP, S_FILE, S_HTTP, S_HTTPS, S_WS, S_WSS}

\* C16 happens: an input that starts with "HtTp:" was parsed with a base of
\* scheme "a" and its scheme is the special "http"
C16_Witness ==
    /\ pc = "parsed"
    /\ Len(x.input) > 4 /\ SubSeq(x.input, 1, 5) = <<72, 116, 84, 112, COLON>>
    /\ x.base.present /\ x.base.url.scheme = <<97>>
    /\ p.url.scheme = S_HTTP
    /\ p.url.is_special

\* a segment whose first two code points are a Windows drive letter
DriveLetterSegment(segment) ==
    Len(segment) >= 2 /\ IsWindowsDriveLetter(SubSeq(segment, 1, 2))

\* C17: after every successful parse, a structured path holds no segment that
\* starts with a Windows drive letter (an ASCII letter followed by ':' or
\* '|'), unless the scheme is file and the segment is the first one.
C17_NoDriveLetterSegment ==
    (Parsed /\ ~HasOpaquePath(p.url)) =>
        \A i \in 1..Len(p.url.path.segs) :
            DriveLetterSegment(p.url.path.segs[i]) => (p.url.scheme = S_FILE /\ i = 1)

\* s[i] starts a well-formed %HH escape
EscapeAt(s, i) ==
    /\ s[i] = PCT
    /\ i + 2 <= Len(s)
    /\ s[i + 1] \in ASCII_HEX_DIGIT
    /\ s[i + 2] \in ASCII_HEX_DIGIT

\* the percent-encode set _parse_url uses for the query of the record
QuerySetOf(url) == IF url.is_special THEN x.sets.special_query ELSE x.sets.query

\* C18 as stated: after every successful parse the query and the fragment,
\* when present, hold only code points outside the percent-encode set of the
\* component and '%' followed by two hex digits: no member of the set and no
\* '%' that does not start a well-formed %HH escape remains.
C18_NoLonePercent ==
    Parsed =>
        /\ p.url.query # NoneStr =>
            \A i \in 1..Len(p.url.query) :
                IF p.url.query[i] = PCT THEN EscapeAt(p.url.query, i)
                ELSE ~Contains(QuerySetOf(p.url), p.url.query[i])
        /\ p.url.fragment # NoneStr =>
            \A i \in 1..Len(p.url.fragment) :
                IF p.url.fragment[i] = PCT THEN EscapeAt(p.url.fragment, i)
                ELSE ~Contains(x.sets.fragment, p.url.fragment[i])

\* C18: after every successful parse, every code point of the query and of
\* the fragment, when present, is outside the percent-encode set of the
\* component or is a '%' that starts a well-formed %HH escape; a '%' that
\* starts no escape remains only when the set does not hold '%'.
C18_QueryAndFragmentEncoded ==
    Parsed =>
        /\ p.url.query # NoneStr =>
            \A i \in 1..Len(p.url.query) :
                \/ ~Contains(QuerySetOf(p.url), p.url.query[i])
                \/ EscapeAt(p.url.query, i)
        /\ p.url.fragment # NoneStr =>
            \A i \in 1..Len(p.url.fragment) :
                \/ ~Contains(x.sets.fragment, p.url.fragment[i])
                \/ EscapeAt(p.url.fragment, i)

\* C18 happens: safe_url has parsed a query that ends in a '%' that starts no
\* escape, and the '%' of the escape was kept while the other became %25
C18_Witness ==
    /\ Parsed
    /\ call.fn = "safe_url"
    /\ HasSub(x.input, <<QMARK, PCT, 52, 49, PCT>>)
    /\ p.url.query = <<PCT, 52, 49, PCT, 50, 53>>

(***************************************************************************)
(* _preprocess_url and _parse_url on inputs with C0 controls or spaces     *)
(* added at the ends and ASCII tabs or newlines inserted anywhere.         *)
(***************************************************************************)
\* the most tabs and newlines inserted into an input
MaxInserted == 1

\* the inputs before anything is added: "http://h", "a:o p", "h", " //h/a b",
\* "file:c|?q#f<LF>"
PlainInputs ==
    {<<104, 116, 116, 112, 58, 47, 47, 104>>,
     <<97, 58, 111, 32, 112>>,
     <<104>>,
     <<32, 47, 47, 104, 47, 97, 32, 98>>,
     <<102, 105, 108, 101, 58, 99, 124, 63, 113, 35, 102, 10>>}

\* what is added before or after an input: "", " ", "<LF><NUL>", "<US><TAB>"
EndSamples == {<<>>, <<SP>>, <<LF, 0>>, <<31, TAB>>}

\* s with the code point c inserted after its first i code points
InsertAt(s, i, c) == SubSeq(s, 1, i) \o <<c>> \o SubSeq(s, i + 1, Len(s))

\* s with at most n ASCII tabs or newlines inserted, at any positions
RECURSIVE Inserted(_, _)
Inserted(s, n) ==
    IF n = 0 THEN {s}
    ELSE LET prev == Inserted(s, n - 1) IN
         prev \cup UNION {{InsertAt(t, i, c) : i \in 0..Len(t), c \in ASCII_TAB_OR_NEWLINE} :
                           t \in prev}

InitPreprocess ==
    /\ \E plain \in PlainInputs, lead \in EndSamples, trail \in EndSamples :
          \E s \in Inserted(plain, MaxInserted) :
              call = [fn |-> "parse_url", plain |-> plain, input |-> lead \o s \o trail,
                      base_url |-> NoneStr, encoding |-> "utf-8"]
    /\ pc = "call"
    /\ x = [input |-> <<>>, base |-> NoBase, sets |-> StandardSets]
    /\ p = InitialP("")
    /\ canonicalize = "None"
    /\ output = NoneStr

\* _preprocess_url(input)
PreprocessInput ==
    /\ pc = "call"
    /\ x' = [x EXCEPT !.input = PreprocessUrl(call.input)]
    /\ pc' = "preprocessed"
    /\ UNCHANGED <<call, p, canonicalize, output>>

\* _preprocess_url of the preprocessed input
PreprocessAgain ==
    /\ pc = "preprocessed"
    /\ output' = PreprocessUrl(x.input)
    /\ pc' = "preprocessed twice"
    /\ UNCHANGED <<call, x, p, canonicalize>>

\* _parse_url(input): the record is kept, an exception ends the call
ParseInput ==
    /\ pc = "preprocessed twice"
    /\ LET Then(r) ==
               IF r.ok THEN p' = [p EXCEPT !.url = r.v] /\ pc' = "parsed"
               ELSE p' = [p EXCEPT !.error = r.err] /\ pc' = "raised"
       IN Then(ParseUrl(call.input, call.base_url, call.encoding, x.sets))
    /\ UNCHANGED <<call, x, canonicalize, output>>

NextPreprocess ==
    \/ PreprocessInput
    \/ PreprocessAgain
    \/ ParseInput

SpecPreprocess == InitPreprocess /\ [][NextPreprocess]_vars

\* C19: the result of _parse_url, record or failure, is the same when C0
\* controls or spaces are added before or after the input and when ASCII tabs
\* or newlines are inserted at any position; _preprocess_url gives the same
\* string for both inputs, is idempotent, and its result holds no tab, LF or
\* CR and neither starts nor ends with a C0 control or space.
C19_Preprocessing ==
    /\ pc # "call" =>
        /\ x.input = PreprocessUrl(call.plain)
        /\ \A i \in 1..Len(x.input) : x.input[i] \notin ASCII_TAB_OR_NEWLINE
        /\ x.input # <<>> =>
            (Head(x.input) \notin C0_CONTROL_OR_SPACE /\ Last(x.input) \notin C0_CONTROL_OR_SPACE)
    /\ pc \notin {"call", "preprocessed"} => output = x.input
    /\ pc \in {"parsed", "raised"} =>
        Outcome = ParseUrl(call.plain, call.base_url, call.encoding, x.sets)

\* C19 happens: "<US><TAB>a:<CR>o p<LF><NUL>" was preprocessed to "a:o p" and
\* parsed to the record of "a:o p"
C19_Witness ==
    /\ pc = "parsed"
    /\ call.input = <<31, TAB, 97, 58, CR, 111, 32, 112, LF, 0>>
    /\ x.input = <<97, 58, 111, 32, 112>>
    /\ p.url.scheme = <<97>>
    /\ p.url.path = PathStr(<<111, SP, 112>>)

(***************************************************************************)
(* Concurrent calls of _parse_url.  What the calls share is the two tables *)
(* loaded with the module and the two functools.lru_cache caches, of       *)
(* _get_encoding and of _get_encoder; everything else is local to a call.  *)
(* A cached function looks its key up, and on a miss runs the function     *)
(* and then stores the result; other calls may run between these steps.    *)
(* Here call, pc, p and output are functions of the process, and x is what *)
(* the processes share.                                                    *)
(***************************************************************************)
\* the number of concurrent calls
NumProcs == 2

Procs == 1..NumProcs

\* the input of every call: "http://h?é", whose query goes through the encoder
CacheInput == <<104, 116, 116, 112, 58, 47, 47, 104, 63, 233>>

\* the encoding labels of the calls
CacheLabels == {"utf-8", "utf8", "latin1", "utf-16le", "bogus"}

\* a cache that stores the value under every key it holds
CacheStore_EveryKey(cache, key, value) == [k \in DOMAIN cache \cup {key} |-> value]

\* the store of functools.lru_cache after a miss
CacheStore(cache, key, value) ==
    [k \in DOMAIN cache \cup {key} |-> IF k = key THEN value ELSE cache[k]]

\* the local variables of a call
CacheLocals == [encoding |-> "", encoder |-> "", result |-> "", error |-> ""]

\* after the module is loaded: _UTF_8_ENCODER = _get_encoder("utf-8") has
\* filled one entry of the encoder cache
InitCache ==
    /\ call \in [Procs -> [fn : {"parse_url"}, input : {CacheInput}, base_url : {NoneStr},
                           encoding : CacheLabels]]
    /\ pc = [i \in Procs |-> "call"]
    /\ x = [label_encodings |-> LABEL_ENCODINGS,
            idna_mapping_table |-> IDNA_MAPPING_TABLE,
            encoding_cache |-> <<>>,
            encoder_cache |-> CacheStore(<<>>, UTF_8_ENCODING, UTF_8_ENCODING)]
    /\ p = [i \in Procs |-> CacheLocals]
    /\ canonicalize = "None"
    /\ output = [i \in Procs |-> NoneStr]

\* _get_encoding(label), the lookup of the cache: a hit returns the entry
GetEncodingLookup(i) ==
    /\ pc[i] = "call"
    /\ IF call[i].encoding \in DOMAIN x.encoding_cache
       THEN /\ p' = [p EXCEPT ![i].encoding = x.encoding_cache[call[i].encoding]]
            /\ pc' = [pc EXCEPT ![i] = "_get_output_encoding"]
       ELSE /\ p' = p
            /\ pc' = [pc EXCEPT ![i] = "_get_encoding"]
    /\ UNCHANGED <<call, x, canonicalize, output>>

\* _get_encoding(label), the body after a miss: the exception of an unknown
\* label leaves the cached function and ends the call
GetEncodingBody(i) ==
    /\ pc[i] = "_get_encoding"
    /\ IF call[i].encoding \in DOMAIN x.label_encodings
       THEN /\ p' = [p EXCEPT ![i].result = x.label_encodings[call[i].encoding]]
            /\ pc' = [pc EXCEPT ![i] = "store encoding"]
       ELSE /\ p' = [p EXCEPT ![i].error = "ValueError"]
            /\ pc' = [pc EXCEPT ![i] = "raised"]
    /\ UNCHANGED <<call, x, canonicalize, output>>

\* _get_encoding(label), the store of the cache after the body has returned
GetEncodingStore(i) ==
    /\ pc[i] = "store encoding"
    /\ x' = [x EXCEPT !.encoding_cache = CacheStore(@, call[i].encoding, p[i].result)]
    /\ p' = [p EXCEPT ![i].encoding = p[i].result]
    /\ pc' = [pc EXCEPT ![i] = "_get_output_encoding"]
    /\ UNCHANGED <<call, canonicalize, output>>

\* the rest of _get_output_encoding
OutputEncoding(i) ==
    /\ pc[i] = "_get_output_encoding"
    /\ p' = [p EXCEPT ![i].encoding =
                IF @ \in OUTPUT_ENCODING_UTF8_ENCODINGS THEN UTF_8_ENCODING ELSE @]
    /\ pc' = [pc EXCEPT ![i] = "QUERY"]
    /\ UNCHANGED <<call, x, canonicalize, output>>

\* _get_encoder(encoding), the lookup of the cache, in the QUERY state of a
\* special URL that is not ws or wss: the key is the output encoding
GetEncoderLookup(i) ==
    /\ pc[i] = "QUERY"
    /\ IF p[i].encoding \in DOMAIN x.encoder_cache
       THEN /\ p' = [p EXCEPT ![i].encoder = x.encoder_cache[p[i].encoding]]
            /\ pc' = [pc EXCEPT ![i] = "encode"]
       ELSE /\ p' = p
            /\ pc' = [pc EXCEPT ![i] = "_get_encoder"]
    /\ UNCHANGED <<call, x, canonicalize, output>>

\* _get_encoder(encoding), the body after a miss: the encoder of the codec,
\* which the model names by the codec
GetEncoderBody(i) ==
    /\ pc[i] = "_get_encoder"
    /\ p' = [p EXCEPT ![i].result = p[i].encoding]
    /\ pc' = [pc EXCEPT ![i] = "store encoder"]
    /\ UNCHANGED <<call, x, canonicalize, output>>

\* _get_encoder(encoding), the store of the cache
GetEncoderStore(i) ==
    /\ pc[i] = "store encoder"
    /\ x' = [x EXCEPT !.encoder_cache = CacheStore(@, p[i].encoding, p[i].result)]
    /\ p' = [p EXCEPT ![i].encoder = p[i].result]
    /\ pc' = [pc EXCEPT ![i] = "encode"]
    /\ UNCHANGED <<call, canonicalize, output>>

\* the record _parse_url returns: that of the loop run with the encoder the
\* call has obtained, the encoding being read only to obtain the encoder
ParseReturn(i) ==
    /\ pc[i] = "encode"
    /\ output' = [output EXCEPT ![i] =
            RunLoop([input |-> PreprocessUrl(call[i].input), base |-> NoBase,
                     sets |-> StandardSets], InitialP(p[i].encoder))]
    /\ pc' = [pc EXCEPT ![i] = "parsed"]
    /\ UNCHANGED <<call, x, p, canonicalize>>

NextCache ==
    \E i \in Procs :
        \/ GetEncodingLookup(i)
        \/ GetEncodingBody(i)
        \/ GetEncodingStore(i)
        \/ OutputEncoding(i)
        \/ GetEncoderLookup(i)
        \/ GetEncoderBody(i)
        \/ GetEncoderStore(i)
        \/ ParseReturn(i)

SpecCache == InitCache /\ [][NextCache]_vars

\* what the call of process i returns when it runs alone
Alone(i) == ParseUrl(call[i].input, call[i].base_url, call[i].encoding, StandardSets)

\* C20: under every interleaving of concurrent calls each call returns, or
\* raises, what it does when run alone; the encoding-label map and the IDNA
\* table stay as loaded; each cache holds for a key only what the function
\* computes from that key, so a hit and a miss give the same result, and a
\* label whose lookup fails is never cached.
C20_CallsArePure ==
    /\ \A i \in Procs :
        /\ pc[i] = "parsed" => output[i] = Alone(i)
        /\ pc[i] = "raised" => ~Alone(i).ok /\ Alone(i).err = p[i].error
        /\ pc[i] \in {"QUERY", "_get_encoder", "store encoder", "encode"} =>
            Ok(p[i].encoding) = GetOutputEncoding(call[i].encoding)
        /\ pc[i] = "encode" => p[i].encoder = p[i].encoding
    /\ x.label_encodings = LABEL_ENCODINGS
    /\ x.idna_mapping_table = IDNA_MAPPING_TABLE
    /\ \A k \in DOMAIN x.encoding_cache : GetEncoding(k) = Ok(x.encoding_cache[k])
    /\ \A k \in DOMAIN x.encoder_cache : x.encoder_cache[k] = k

\* C20 happens: the first call has stored the encoder of windows-1252 after a
\* miss while the second, with the same label, got the encoding and the
\* encoder from the caches, and both have returned the record with the query "%E9"
C20_Witness ==
    /\ call[1].encoding = "latin1" /\ call[2].encoding = "latin1"
    /\ pc[1] = "parsed" /\ pc[2] = "parsed"
    /\ p[1].result = WINDOWS_1252_ENCODING /\ p[2].result = ""
    /\ output[1].ok /\ output[1].v.query = <<PCT, 69, 57>>
    /\ output[2] = output[1]

(***************************************************************************)
(* The loop of _parse_url with its iterations counted.  In this            *)
(* specification output holds the counters of the run: the iterations of   *)
(* the loop and the rewinds of the AUTHORITY state to the start of the     *)
(* host.                                                                   *)
(***************************************************************************)
\* the most code points after the scheme of an input
MaxLoopLen == 3

\* how the inputs start: "", "http:", "file:", "a:"
LoopPrefixes ==
    {<<>>, <<104, 116, 116, 112, 58>>, <<102, 105, 108, 101, 58>>, <<97, 58>>}

\* the code points that follow: 'a', '/', '@', '#'
LoopAlphabet == {97, SLASH, AT, HASH}

\* the strings of exactly n code points of the alphabet
RECURSIVE LoopStrings(_)
LoopStrings(n) ==
    IF n = 0 THEN {<<>>}
    ELSE {Append(s, c) : s \in LoopStrings(n - 1), c \in LoopAlphabet}

\* base_url: None, "http://b/p?r", "file:///d", "a:o?q"
LoopBases ==
    {NoneStr,
     <<104, 116, 116, 112, 58, 47, 47, 98, 47, 112, 63, 114>>,
     <<102, 105, 108, 101, 58, 47, 47, 47, 100>>,
     <<97, 58, 111, 63, 113>>}

\* the iterations allowed for an input: linear in its length
IterationBound(input) == 2 * Len(input) + 8

\* before the call: no argument is chosen yet
InitLoop ==
    /\ call = [fn |-> "parse_url", input |-> <<>>, base_url |-> NoneStr, encoding |-> "utf-8"]
    /\ pc = "idle"
    /\ x = [input |-> <<>>, base |-> NoBase, sets |-> StandardSets]
    /\ p = InitialP("")
    /\ canonicalize = "None"
    /\ output = [iterations |-> 0, rewinds |-> 0]

\* the call of _parse_url with an input and a base_url
LoopCall ==
    /\ pc = "idle"
    /\ \E prefix \in LoopPrefixes, n \in 0..MaxLoopLen, base_url \in LoopBases :
          \E s \in LoopStrings(n) :
              call' = [call EXCEPT !.input = prefix \o s, !.base_url = base_url]
    /\ pc' = "call"
    /\ UNCHANGED <<x, p, canonicalize, output>>

\* _parse_url up to the loop
LoopStart ==
    /\ pc = "call"
    /\ LET WithBase(b) ==
               IF ~b.ok THEN pc' = "raised" /\ p' = [p EXCEPT !.error = b.err] /\ x' = x
               ELSE /\ pc' = "loop"
                    /\ p' = InitialP(UTF_8_ENCODING)
                    /\ x' = [input |-> PreprocessUrl(call.input), base |-> b.v,
                             sets |-> StandardSets]
       IN \E b \in {ParseBase(call.base_url, call.encoding)} : WithBase(b)
    /\ UNCHANGED <<call, canonicalize, output>>

\* the end of an iteration that left the local variables q: an exception ends
\* the call, the end of the input ends the loop, otherwise "pointer += 1"
LoopCounted(q, rewound) ==
    /\ IF q.error # "" THEN pc' = "raised" /\ p' = q
       ELSE IF LoopExits(x, q) THEN pc' = "parsed" /\ p' = q
       ELSE pc' = "loop" /\ p' = [q EXCEPT !.pointer = @ + 1]
    /\ output' = [iterations |-> output.iterations + 1,
                  rewinds |-> output.rewinds + (IF rewound THEN 1 ELSE 0)]
    /\ UNCHANGED <<call, x, canonicalize>>

\* the iteration of the AUTHORITY state takes "pointer -= len(buffer) + 1"
AuthorityRewinds ==
    /\ p.state = "AUTHORITY"
    /\ p.skip_authority_shortcut
    /\ ~(~ReachedEnd /\ ReadC.c = AT)
    /\ EndOfAuthority(ReadC, ReachedEnd)
    /\ ~(p.at_sign_seen /\ p.buffer = <<>>)

\* one iteration of the loop that rewinds to the start of the host
LoopRewind ==
    /\ pc = "loop"
    /\ output.iterations <= IterationBound(x.input)
    /\ AuthorityRewinds
    /\ \E q \in {LoopBody(x, p)} : LoopCounted(q, TRUE)

\* one iteration of the loop, of any other kind
LoopIteration ==
    /\ pc = "loop"
    /\ output.iterations <= IterationBound(x.input)
    /\ ~AuthorityRewinds
    /\ \E q \in {LoopBody(x, p)} : LoopCounted(q, FALSE)

NextLoop ==
    \/ LoopCall
    \/ LoopStart
    \/ LoopRewind
    \/ LoopIteration

SpecLoop == InitLoop /\ [][NextLoop]_vars

\* a step of the call can be taken: every step changes pc or the counters, so
\* this is ENABLED <<NextLoop>>_vars
LoopCanRun ==
    \/ pc \in {"idle", "call"}
    \/ pc = "loop" /\ output.iterations <= IterationBound(x.input)

\* the call runs while it can, nothing else being scheduled during it: weak
\* fairness of NextLoop, WF_vars(NextLoop), with its enabling condition written out
FairSpecLoop == SpecLoop /\ ([]<>(~LoopCanRun) \/ []<><<NextLoop>>_vars)

\* C21: the loop of _parse_url ends, with a record or a failure, for every
\* input and every base; its iterations never exceed a linear function of the
\* length of the input, the rewinds of the cursor included; and the AUTHORITY
\* state rewinds to the start of the host at most once in a parse.
C21_LoopTerminates ==
    /\ [](pc \notin {"idle", "call"} => output.iterations <= IterationBound(x.input))
    /\ [](output.rewinds <= 1)
    /\ <>(pc \in {"parsed", "raised"})

\* C21 happens: "http:a@a" was parsed after one rewind of the AUTHORITY
\* state, in more iterations than the input has code points
C21_Witness ==
    /\ pc = "parsed"
    /\ x.input = <<104, 116, 116, 112, 58, 97, AT, 97>>
    /\ p.url.username = <<97>>
    /\ output.rewinds = 1
    /\ output.iterations > Len(x.input) + 1

\* the input is a special URL other than file that ends right after its authority
EndsAfterAuthority(s) == HasSpecialAuthority(s) /\ AfterAuthority(s) = <<>>

\* C22: a state entered at the end of the input still runs once, on the end
\* token, before the loop exits, and the buffer is empty on return: for a
\* special URL whose input ends right after the authority the PATH state
\* runs on the end token, so that the record has the one-segment path of the
\* same input followed by '/'.
C22_EndTokenRuns ==
    Parsed =>
        /\ p.buffer = <<>>
        /\ (call.base_url = NoneStr /\ EndsAfterAuthority(x.input)) =>
            /\ p.url.path = PathList(<< <<>> >>)
            /\ p.url.path =
                   ParseUrl(x.input \o <<SLASH>>, NoneStr, call.encoding, SetsOf(call.fn)).v.path

(***************************************************************************)
(* _parse_url on URLs of every kind of scheme with a query that holds 'é', *)
(* under encoding labels of every output encoding.                         *)
(***************************************************************************)
\* the most code points of a query
MaxQueryLen == 2

\* what precedes the query: "http://h", "https://h", "ftp://h", "file:///d",
\* "ws://h", "wss://h", "a://h", "a:o"
QueryUrls ==
    {<<104, 116, 116, 112, 58, 47, 47, 104>>,
     <<104, 116, 116, 112, 115, 58, 47, 47, 104>>,
     <<102, 116, 112, 58, 47, 47, 104>>,
     <<102, 105, 108, 101, 58, 47, 47, 47, 100>>,
     <<119, 115, 58, 47, 47, 104>>,
     <<119, 115, 115, 58, 47, 47, 104>>,
     <<97, 58, 47, 47, 104>>,
     <<97, 58, 111>>}

\* the code points of the queries: 'é' and 'q'
QueryAlphabet == {EACUTE, 113}

\* the queries of exactly n code points
RECURSIVE QueryStrings(_)
QueryStrings(n) ==
    IF n = 0 THEN {<<>>}
    ELSE {Append(s, c) : s \in QueryStrings(n - 1), c \in QueryAlphabet}

\* the encoding labels of the calls, one or two for each output encoding
QueryLabels == {"utf-8", "latin1", "windows-1252", "utf-16le", "utf-16be", "replacement"}

InitQuery ==
    /\ \E url \in QueryUrls, n \in 1..MaxQueryLen, label \in QueryLabels,
          fn \in {"parse_url", "safe_url"} :
          \E query \in QueryStrings(n) :
              call = [fn |-> fn, input |-> url \o <<QMARK>> \o query, base_url |-> NoneStr,
                      encoding |-> label, query |-> query]
    /\ pc = "call"
    /\ x = [input |-> <<>>, base |-> NoBase, sets |-> StandardSets]
    /\ p = InitialP("")
    /\ canonicalize = "None"
    /\ output = NoneStr

\* _parse_url(input, encoding=label) with the sets of the function called
QueryParse ==
    /\ pc = "call"
    /\ x' = [x EXCEPT !.input = PreprocessUrl(call.input), !.sets = SetsOf(call.fn)]
    /\ LET Then(r) ==
               IF r.ok THEN p' = [p EXCEPT !.url = r.v] /\ pc' = "parsed"
               ELSE p' = [p EXCEPT !.error = r.err] /\ pc' = "raised"
       IN Then(ParseUrl(call.input, call.base_url, call.encoding, SetsOf(call.fn)))
    /\ UNCHANGED <<call, canonicalize, output>>

NextQuery == QueryParse

SpecQuery == InitQuery /\ [][NextQuery]_vars

\* a query of 'é' and 'q' percent-encoded from its UTF-8 bytes, and from its
\* windows-1252 bytes
QueryAsUtf8(query) ==
    Concat([i \in 1..Len(query) |->
        IF query[i] = EACUTE THEN <<PCT, 67, 51, PCT, 65, 57>> ELSE <<query[i]>>])

QueryAsCp1252(query) ==
    Concat([i \in 1..Len(query) |->
        IF query[i] = EACUTE THEN <<PCT, 69, 57>> ELSE <<query[i]>>])

\* C23 as stated: the query is percent-encoded from the bytes of a non-UTF-8
\* encoding only when the caller chose one and the scheme is not special or
\* is ws or wss; for every other scheme it is encoded as UTF-8.
C23_NonUtf8ForNonSpecial ==
    pc = "parsed" =>
        p.url.query =
            IF /\ call.encoding \in {"latin1", "windows-1252"}
               /\ (~p.url.is_special \/ p.url.scheme \in {S_WS, S_WSS})
            THEN QueryAsCp1252(call.query)
            ELSE QueryAsUtf8(call.query)

\* C23: the query is percent-encoded from the bytes of a non-UTF-8 encoding
\* exactly when the caller chose one and the scheme is special and neither ws
\* nor wss; for a scheme that is not special, and for ws and wss, it is
\* encoded as UTF-8, and so it is under the labels of the replacement
\* encoding, UTF-16BE and UTF-16LE, whatever the scheme.
C23_QueryEncodingChoice ==
    /\ pc # "raised"
    /\ pc = "parsed" =>
        p.url.query =
            IF /\ call.encoding \in {"latin1", "windows-1252"}
               /\ p.url.is_special
               /\ p.url.scheme \notin {S_WS, S_WSS}
            THEN QueryAsCp1252(call.query)
            ELSE QueryAsUtf8(call.query)

\* C23 happens: "http://h?qé" was parsed with the label latin1 and its query
\* has the windows-1252 byte of 'é'
C23_Witness ==
    /\ pc = "parsed"
    /\ call.encoding = "latin1"
    /\ x.input = <<104, 116, 116, 112, 58, 47, 47, 104, QMARK, 113, EACUTE>>
    /\ p.url.query = <<113, PCT, 69, 57>>

\* the SCHEME_START and SCHEME states read a scheme from the input: a letter,
\* then scheme characters up to a ':'
HasValidScheme(s) ==
    /\ s # <<>>
    /\ s[1] \in ASCII_ALPHA
    /\ \E k \in 2..Len(s) : s[k] = COLON /\ \A i \in 1..(k - 1) : s[i] \in SCHEME_CHARS

\* C24 as stated: an input without a valid scheme fails when there is no
\* base; against a base with an opaque path it is parsed only when it starts
\* with '#', the empty input failing too, and the record then has the
\* scheme, path and query of the base and the fragment of the input (the
\* code points of the inputs need no encoding in a fragment); and the
\* NO_SCHEME state is entered with the cursor on the first code point of the
\* input and an empty buffer.
C24_NoSchemeInput ==
    /\ (pc \in {"parsed", "raised"} /\ ~HasValidScheme(x.input)) =>
          /\ ~x.base.present => pc = "raised"
          /\ (x.base.present /\ HasOpaquePath(x.base.url)) =>
                /\ pc = "parsed" <=> (x.input # <<>> /\ x.input[1] = HASH)
                /\ pc = "parsed" =>
                      /\ p.url.scheme = x.base.url.scheme
                      /\ p.url.path = x.base.url.path
                      /\ p.url.query = x.base.url.query
                      /\ p.url.fragment = Tail(x.input)
    /\ (pc = "loop" /\ p.state = "NO_SCHEME") => p.pointer = 0 /\ p.buffer = <<>>

(***************************************************************************)
(* _parse_url on inputs without a scheme against a base, one iteration at  *)
(* a time.  url.path = base.path makes url.path and base.path one list:    *)
(* output.shared says that they are one list, and output.base_path is what *)
(* the list of the base holds.                                             *)
(***************************************************************************)
\* the most code points of an input
MaxRelLen == 3

\* the code points of the inputs: 'a', '.', '/', '\', '?', '#'
RelAlphabet == {97, DOT, SLASH, BSLASH, QMARK, HASH}

\* the inputs of exactly n code points
RECURSIVE RelStrings(_)
RelStrings(n) ==
    IF n = 0 THEN {<<>>}
    ELSE {Append(s, c) : s \in RelStrings(n - 1), c \in RelAlphabet}

\* base_url: "http://u:w@b:8/p/q?r#f", "a://u:w@b:8/p/q?r#f", "a://b", "file:///C:"
RelBases ==
    {<<104, 116, 116, 112, 58, 47, 47, 117, 58, 119, 64, 98, 58, 56, 47, 112, 47, 113, 63, 114, 35, 102>>,
     <<97, 58, 47, 47, 117, 58, 119, 64, 98, 58, 56, 47, 112, 47, 113, 63, 114, 35, 102>>,
     <<97, 58, 47, 47, 98>>,
     <<102, 105, 108, 101, 58, 47, 47, 47, 67, 58>>}

InitRelative ==
    /\ \E n \in 0..MaxRelLen, base_url \in RelBases :
          \E s \in RelStrings(n) :
              call = [fn |-> "parse_url", input |-> s, base_url |-> base_url,
                      encoding |-> "utf-8"]
    /\ pc = "call"
    /\ x = [input |-> <<>>, base |-> NoBase, sets |-> StandardSets]
    /\ p = InitialP("")
    /\ canonicalize = "None"
    /\ output = [shared |-> FALSE, base_path |-> PathList(<<>>)]

\* _parse_url up to the loop
RelativeStart ==
    /\ pc = "call"
    /\ LET WithBase(b) ==
               /\ pc' = "loop"
               /\ p' = InitialP(UTF_8_ENCODING)
               /\ x' = [input |-> PreprocessUrl(call.input), base |-> b.v,
                        sets |-> StandardSets]
               /\ output' = [shared |-> FALSE, base_path |-> b.v.url.path]
       IN WithBase(ParseBase(call.base_url, call.encoding))
    /\ UNCHANGED <<call, canonicalize>>

\* _shorten_path returns without a new list
ShortenReturns(url) ==
    /\ url.scheme = S_FILE
    /\ Len(url.path.segs) = 1
    /\ IsWindowsDriveLetter(url.path.segs[1])

\* whether url.path is the list of the base after the branch of the state:
\* RELATIVE and FILE assign base.path, _shorten_path and "url.path = []" make
\* a new list
SharedAfter(q, re, shared) ==
    LET other == ~re /\ q.c \notin {QMARK, HASH}
        inherited == [q.url EXCEPT !.scheme = x.base.url.scheme, !.path = x.base.url.path]
    IN
    IF q.state = "RELATIVE" THEN
        IF ~re /\ (q.c = SLASH \/ (x.base.url.is_special /\ q.c = BSLASH)) THEN shared
        ELSE IF other THEN ShortenReturns(inherited)
        ELSE TRUE
    ELSE IF q.state = "FILE" THEN
        IF ~re /\ q.c \in {SLASH, BSLASH} THEN shared
        ELSE IF x.base.present /\ x.base.url.scheme = S_FILE THEN
            IF other
            THEN ~StartsWithWindowsDriveLetter(From(x.input, q.pointer))
                 /\ ShortenReturns(inherited)
            ELSE TRUE
        ELSE shared
    ELSE IF q.state = "PATH" /\ IsDoubleDotPathSegment(q.buffer)
            /\ (re \/ q.c \in {SLASH, QMARK, HASH} \/ SpecialBackslash(q))
    THEN shared /\ ShortenReturns(q.url)
    ELSE shared

\* the PATH state calls url.path.append
PathAppends(q, re) ==
    /\ q.state = "PATH"
    /\ re \/ q.c \in {SLASH, QMARK, HASH} \/ SpecialBackslash(q)
    /\ (IsDoubleDotPathSegment(q.buffer) \/ IsSingleDotPathSegment(q.buffer)) => NotASlash(q)

\* one iteration of the loop
RelativeIteration ==
    /\ pc = "loop"
    /\ LET Then(q) ==
               /\ IF q.error # "" THEN pc' = "raised" /\ p' = q
                  ELSE IF LoopExits(x, q) THEN pc' = "parsed" /\ p' = q
                  ELSE pc' = "loop" /\ p' = [q EXCEPT !.pointer = @ + 1]
               /\ LET shared == SharedAfter(ReadC, ReachedEnd, output.shared) IN
                  output' = [shared |-> shared,
                             base_path |-> IF shared /\ PathAppends(ReadC, ReachedEnd)
                                           THEN q.url.path ELSE output.base_path]
       IN Then(LoopBody(x, p))
    /\ UNCHANGED <<call, x, canonicalize>>

NextRelative ==
    \/ RelativeStart
    \/ RelativeIteration

SpecRelative == InitRelative /\ [][NextRelative]_vars

\* the fields a relative URL takes from the authority of its base
AuthorityFields(url) == <<url.scheme, url.username, url.password, url.hostname, url.port>>

\* a path separator for the scheme of the base
RelSlash(c) == c = SLASH \/ (x.base.url.is_special /\ c = BSLASH)

\* the base with another path and another query: "http://u:w@b:8/z?y",
\* "a://u:w@b:8/z?y", "a://b/z?y"
OtherPathBase ==
    (IF x.base.url.port = None THEN <<97, 58, 47, 47, 98>>
     ELSE IF x.base.url.is_special
          THEN <<104, 116, 116, 112, 58, 47, 47, 117, 58, 119, 64, 98, 58, 56>>
          ELSE <<97, 58, 47, 47, 117, 58, 119, 64, 98, 58, 56>>)
    \o <<SLASH, 122, QMARK, 121>>

\* the record with the authority of the base, its path less the last segment
\* and no query, from which the PATH state appends the input
DroppedThenAppended ==
    LET b == x.base.url
        url == [SetScheme(NewUrl, b.scheme) EXCEPT
                   !.username = b.username, !.password = b.password,
                   !.hostname = b.hostname, !.port = b.port,
                   !.path = PathList(IF b.path.segs = <<>> THEN <<>> ELSE Front(b.path.segs))]
    IN RunLoop(x, [InitialP(UTF_8_ENCODING) EXCEPT !.url = url, !.state = "PATH"])

\* the cases of a relative URL, the last two cases being told apart by
\* IsSlash(input) and IsOther(input)
RelativeCases(IsSlash(_), IsOther(_)) ==
    LET b == x.base.url
        input == x.input
    IN
    (pc = "parsed" /\ b.scheme # S_FILE) =>
        /\ input = <<>> =>
              /\ AuthorityFields(p.url) = AuthorityFields(b)
              /\ p.url.path = b.path
              /\ p.url.query = b.query
              /\ p.url.fragment = NoneStr
        /\ (input # <<>> /\ input[1] = QMARK) =>
              /\ AuthorityFields(p.url) = AuthorityFields(b)
              /\ p.url.path = b.path
              /\ p.url.query = SubSeq(input, 2, FirstOf(input, {HASH}))
        /\ (input # <<>> /\ input[1] = HASH) =>
              /\ AuthorityFields(p.url) = AuthorityFields(b)
              /\ p.url.path = b.path
              /\ p.url.query = b.query
              /\ p.url.fragment = Tail(input)
        /\ IsSlash(input) =>
              /\ AuthorityFields(p.url) = AuthorityFields(b)
              /\ LET Same(r) == r.ok /\ p.url.path = r.v.path /\ p.url.query = r.v.query
                 IN Same(ParseUrl(input, OtherPathBase, "utf-8", StandardSets))
        /\ IsOther(input) =>
              LET Same(r) == r.ok /\ p.url = r.v
              IN Same(DroppedThenAppended)

\* the list of the base holds what it held when the base was parsed
BaseNotModified ==
    (pc # "call" /\ x.base.url.scheme # S_FILE) => output.base_path = x.base.url.path

\* C25 as stated: against a base that is not a file URL and has a structured
\* path, the empty input yields the scheme, username, password, host, port,
\* path and query of the base and no fragment; an input that starts with '?'
\* the same but for the query; an input that starts with '#' all of them and
\* its own fragment; an input that starts with a single '/' keeps scheme,
\* username, password, host and port and has its own path and query; any
\* other input drops the query and the last path segment of the base before
\* it appends; the record of the base is never modified.
C25_RelativeAsStated ==
    LET IsSlash(s) == s # <<>> /\ s[1] = SLASH /\ (Len(s) = 1 \/ s[2] # SLASH)
        IsOther(s) == s # <<>> /\ s[1] \notin {QMARK, HASH, SLASH}
    IN RelativeCases(IsSlash, IsOther) /\ BaseNotModified

\* C25: the same, where a '\' counts as a '/' when the base is special: the
\* '/' case is a separator that no separator follows, and the last case an
\* input that starts with none of '?', '#' and a separator.
C25_RelativeResolution ==
    LET IsSlash(s) == s # <<>> /\ RelSlash(s[1]) /\ (Len(s) = 1 \/ ~RelSlash(s[2]))
        IsOther(s) == s # <<>> /\ s[1] \notin {QMARK, HASH} /\ ~RelSlash(s[1])
    IN RelativeCases(IsSlash, IsOther) /\ BaseNotModified

\* C25 happens: "a?a" was resolved against "http://u:w@b:8/p/q?r#f": the
\* path is the one of the base with "a" in place of "q", the query the one
\* of the input, and the list of the base still holds "p", "q"
C25_Witness ==
    /\ pc = "parsed"
    /\ x.input = <<97, QMARK, 97>>
    /\ x.base.url.scheme = S_HTTP
    /\ p.url.path = PathList(<< <<112>>, <<97>> >>)
    /\ p.url.query = <<97>>
    /\ p.url.port = 8
    /\ output.base_path = PathList(<< <<112>>, <<113>> >>)

(***************************************************************************)
(* _parse_url on an input with backslashes, on the input with '/' in their *)
(* place and on the input with '~', a code point that no state treats as a *)
(* delimiter and no encode set holds, in their place.                      *)
(***************************************************************************)
\* the most code points after the start of an input
MaxSlashLen == 3

\* how the inputs start: "", "http:", "file:", "a:", "http://a", "a://a"
SlashPrefixes ==
    {<<>>, <<104, 116, 116, 112, 58>>, <<102, 105, 108, 101, 58>>, <<97, 58>>,
     <<104, 116, 116, 112, 58, 47, 47, 97>>, <<97, 58, 47, 47, 97>>}

\* the code points that follow: '\', '/', 'a', '@', ':', '?'
SlashAlphabet == {BSLASH, SLASH, 97, AT, COLON, QMARK}

\* the strings of exactly n code points of the alphabet
RECURSIVE SlashStrings(_)
SlashStrings(n) ==
    IF n = 0 THEN {<<>>}
    ELSE {Append(s, c) : s \in SlashStrings(n - 1), c \in SlashAlphabet}

\* base_url: None, "http://b/p", "a://b/p"
SlashBases ==
    {NoneStr,
     <<104, 116, 116, 112, 58, 47, 47, 98, 47, 112>>,
     <<97, 58, 47, 47, 98, 47, 112>>}

\* s with c in place of every backslash before its first '?' or '#'
ReplaceBackslash(s, c) ==
    [i \in 1..Len(s) |->
        IF s[i] = BSLASH /\ i <= FirstOf(s, {QMARK, HASH}) THEN c ELSE s[i]]

InitBackslash ==
    /\ \E prefix \in SlashPrefixes, n \in 0..MaxSlashLen, base_url \in SlashBases :
          \E s \in SlashStrings(n) :
              /\ BSLASH \in Range(s)
              /\ call = [fn |-> "parse_url", input |-> prefix \o s, base_url |-> base_url,
                         encoding |-> "utf-8"]
    /\ pc = "call"
    /\ x = [input |-> <<>>, base |-> NoBase, sets |-> StandardSets]
    /\ p = InitialP("")
    /\ canonicalize = "None"
    /\ output = [slashes |-> Fail, tildes |-> Fail]

\* _parse_url(input, base_url)
BackslashParse ==
    /\ pc = "call"
    /\ x' = [x EXCEPT !.input = PreprocessUrl(call.input)]
    /\ LET Then(r) ==
               IF r.ok THEN p' = [p EXCEPT !.url = r.v] /\ pc' = "parsed"
               ELSE p' = [p EXCEPT !.error = r.err] /\ pc' = "raised"
       IN Then(ParseUrl(call.input, call.base_url, call.encoding, StandardSets))
    /\ UNCHANGED <<call, canonicalize, output>>

\* _parse_url of the input with '/' for its backslashes
SlashesParse ==
    /\ pc \in {"parsed", "raised"}
    /\ pc' = IF pc = "parsed" THEN "parsed 2" ELSE "raised 2"
    /\ output' = [output EXCEPT !.slashes =
           ParseUrl(ReplaceBackslash(call.input, SLASH), call.base_url, call.encoding,
                    StandardSets)]
    /\ UNCHANGED <<call, x, p, canonicalize>>

\* _parse_url of the input with '~' for its backslashes
TildesParse ==
    /\ pc \in {"parsed 2", "raised 2"}
    /\ pc' = IF pc = "parsed 2" THEN "parsed 3" ELSE "raised 3"
    /\ output' = [output EXCEPT !.tildes =
           ParseUrl(ReplaceBackslash(call.input, TILDE), call.base_url, call.encoding,
                    StandardSets)]
    /\ UNCHANGED <<call, x, p, canonicalize>>

NextBackslash ==
    \/ BackslashParse
    \/ SlashesParse
    \/ TildesParse

SpecBackslash == InitBackslash /\ [][NextBackslash]_vars

\* a stored string with '~' for every backslash, kept as it is or written
\* "%5C" by the userinfo set
RECURSIVE Tildes(_)
Tildes(s) ==
    IF s = <<>> THEN <<>>
    ELSE IF Head(s) = BSLASH THEN <<TILDE>> \o Tildes(Tail(s))
    ELSE IF StartsWith(s, <<PCT, 53, 67>>) THEN <<TILDE>> \o Tildes(From(s, 3))
    ELSE <<Head(s)>> \o Tildes(Tail(s))

\* a record with '~' for every backslash of its userinfo and its path
TildesUrl(url) ==
    [url EXCEPT !.username = Tildes(@),
                !.password = Tildes(@),
                !.path = IF @.opaque THEN PathStr(Tildes(@.s))
                         ELSE PathList([i \in 1..Len(@.segs) |-> Tildes(@.segs[i])])]

\* C26: when the scheme is special, the input with '/' in place of every
\* backslash before its first '?' or '#' has the same parse result, a record
\* or a failure; when the scheme is not special a backslash is no delimiter:
\* the input with '~' in place of its backslashes is parsed as well, into
\* the same record with '~' where the backslashes are, so that no backslash
\* ended the authority or split a path segment.
C26_BackslashPolicy ==
    /\ (pc = "parsed 3" /\ p.url.is_special) => output.slashes = Ok(p.url)
    /\ (pc = "raised 3" /\ output.slashes.ok) => ~output.slashes.v.is_special
    /\ (pc = "parsed 3" /\ ~p.url.is_special) => output.tildes = Ok(TildesUrl(p.url))

\* C26 happens: "http:\\a" was parsed into the host "a", as "http://a" is
C26_Witness ==
    /\ pc = "parsed 3"
    /\ call.input = <<104, 116, 116, 112, 58, BSLASH, BSLASH, 97>>
    /\ call.base_url = NoneStr
    /\ p.url.is_special
    /\ p.url.hostname = HostStr(<<97>>)
    /\ output.slashes = Ok(p.url)

(***************************************************************************)
(* _parse_url on URLs whose authority holds a userinfo, an '@' and the     *)
(* host "h".                                                               *)
(***************************************************************************)
\* the most code points of a userinfo
MaxUserLen == 3

\* the code points of a userinfo: 'a', ':', '@', '%', '4', '0'
UserAlphabet == {97, COLON, AT, PCT, D4, D0}

\* the userinfos of exactly n code points
RECURSIVE UserStrings(_)
UserStrings(n) ==
    IF n = 0 THEN {<<>>}
    ELSE {Append(s, c) : s \in UserStrings(n - 1), c \in UserAlphabet}

\* what precedes the userinfo: "http://", "a://"
UserPrefixes == {<<104, 116, 116, 112, 58, 47, 47>>, <<97, 58, 47, 47>>}

\* what follows the host: "", ":8/p"
UserSuffixes == {<<>>, <<COLON, 56, SLASH, 112>>}

InitUserinfo ==
    /\ \E prefix \in UserPrefixes, n \in 0..MaxUserLen, suffix \in UserSuffixes,
          fn \in {"parse_url", "safe_url"} :
          \E userinfo \in UserStrings(n) :
              call = [fn |-> fn, input |-> prefix \o userinfo \o <<AT, 104>> \o suffix,
                      base_url |-> NoneStr, encoding |-> "utf-8",
                      userinfo |-> userinfo, rest |-> prefix \o <<104>> \o suffix]
    /\ pc = "call"
    /\ x = [input |-> <<>>, base |-> NoBase, sets |-> StandardSets]
    /\ p = InitialP("")
    /\ canonicalize = "None"
    /\ output = NoneStr

\* _parse_url(input) with the sets of the function called
UserinfoParse ==
    /\ pc = "call"
    /\ x' = [x EXCEPT !.input = PreprocessUrl(call.input), !.sets = SetsOf(call.fn)]
    /\ LET Then(r) ==
               IF r.ok THEN p' = [p EXCEPT !.url = r.v] /\ pc' = "parsed"
               ELSE p' = [p EXCEPT !.error = r.err] /\ pc' = "raised"
       IN Then(ParseUrl(call.input, call.base_url, call.encoding, SetsOf(call.fn)))
    /\ UNCHANGED <<call, canonicalize, output>>

NextUserinfo == UserinfoParse

SpecUserinfo == InitUserinfo /\ [][NextUserinfo]_vars

\* the number of '@' in a string, and of "%40"
AtSigns(s) == Cardinality({i \in 1..Len(s) : s[i] = AT})

Escaped40(s) == Cardinality({i \in 1..(Len(s) - 2) : SubSeq(s, i, i + 2) = <<PCT, D4, D0>>})

\* C27: the userinfo is what precedes the last '@' of the authority and the
\* host starts after that '@'; the username is the userinfo up to its first
\* ':' and the password what follows that ':', each percent-encoded with the
\* userinfo set, a '%' that starts an escape being kept; every '@' of the
\* userinfo is stored as "%40"; and password_token_seen is set exactly when
\* the userinfo holds a ':'.
C27_UserinfoSplitting ==
    /\ pc # "raised"
    /\ pc = "parsed" =>
          LET userinfo == call.userinfo
              colon == Find(userinfo, COLON, 0)
              username == IF colon = -1 THEN userinfo ELSE SubSeq(userinfo, 1, colon)
              password == IF colon = -1 THEN <<>> ELSE From(userinfo, colon + 1)
              stored == p.url.username \o <<COLON>> \o p.url.password
              Same(r) == /\ r.ok
                         /\ p.url.hostname = r.v.hostname
                         /\ p.url.port = r.v.port
                         /\ p.url.path = r.v.path
          IN /\ p.url.username = IdempotentEncodeAll(username, x.sets.userinfo)
             /\ p.url.password = IdempotentEncodeAll(password, x.sets.userinfo)
             /\ AT \notin Range(stored)
             /\ Escaped40(stored) = AtSigns(userinfo) + Escaped40(userinfo)
             /\ p.url.password_token_seen <=> colon # -1
             /\ p.url.hostname = HostStr(<<104>>)
             /\ Same(ParseUrl(call.rest, NoneStr, "utf-8", x.sets))

\* C27 happens: "http://@:@@h:8/p" was parsed into the username "%40", the
\* password "%40", the host "h" and the port 8
C27_Witness ==
    /\ pc = "parsed"
    /\ call.input = <<104, 116, 116, 112, 58, 47, 47, AT, COLON, AT, AT, 104, COLON, 56, SLASH, 112>>
    /\ p.url.username = <<PCT, D4, D0>>
    /\ p.url.password = <<PCT, D4, D0>>
    /\ p.url.password_token_seen
    /\ p.url.hostname = HostStr(<<104>>)
    /\ p.url.port = 8

(***************************************************************************)
(* _parse_url on URLs with an authority, for the host the HOST state and   *)
(* _parse_host give.                                                       *)
(***************************************************************************)
\* the most tokens of the text in host position
MaxHostTokens == 3

\* the tokens: "a", "1", ".", ":", "::", "[", "]", "%41", "%2F", "é", "^"
HostTokens ==
    {<<97>>, <<49>>, <<DOT>>, <<COLON>>, <<COLON, COLON>>, <<LBRACK>>, <<RBRACK>>,
     <<PCT, D4, 49>>, <<PCT, D2, 70>>, <<EACUTE>>, <<94>>}

\* the texts of exactly n tokens
RECURSIVE HostTexts(_)
HostTexts(n) ==
    IF n = 0 THEN {<<>>}
    ELSE {s \o t : s \in HostTexts(n - 1), t \in HostTokens}

\* what precedes the host: "http://", "wss://", "a://"
HostPrefixes ==
    {<<104, 116, 116, 112, 58, 47, 47>>, <<119, 115, 115, 58, 47, 47>>, <<97, 58, 47, 47>>}

\* what follows: "", "/p"
HostSuffixes == {<<>>, <<SLASH, 112>>}

InitHost ==
    /\ \E prefix \in HostPrefixes, n \in 0..MaxHostTokens, suffix \in HostSuffixes :
          \E host \in HostTexts(n) :
              call = [fn |-> "parse_url", input |-> prefix \o host \o suffix,
                      base_url |-> NoneStr, encoding |-> "utf-8", host |-> host]
    /\ pc = "call"
    /\ x = [input |-> <<>>, base |-> NoBase, sets |-> StandardSets]
    /\ p = InitialP("")
    /\ canonicalize = "None"
    /\ output = NoneStr

\* _parse_url(input)
HostParse ==
    /\ pc = "call"
    /\ x' = [x EXCEPT !.input = PreprocessUrl(call.input)]
    /\ LET Then(r) ==
               IF r.ok THEN p' = [p EXCEPT !.url = r.v] /\ pc' = "parsed"
               ELSE p' = [p EXCEPT !.error = r.err] /\ pc' = "raised"
       IN Then(ParseUrl(call.input, call.base_url, call.encoding, StandardSets))
    /\ UNCHANGED <<call, canonicalize, output>>

NextHost == HostParse

SpecHost == InitHost /\ [][NextHost]_vars

\* the 0-based index of the first ':' of s at or after i that no '[' before
\* it leaves open, Len(s) if there is none
RECURSIVE ColonOutsideBrackets(_, _, _)
ColonOutsideBrackets(s, i, inside) ==
    IF i >= Len(s) THEN Len(s)
    ELSE IF s[i + 1] = COLON /\ ~inside THEN i
    ELSE ColonOutsideBrackets(s, i + 1,
             IF s[i + 1] = LBRACK THEN TRUE ELSE IF s[i + 1] = RBRACK THEN FALSE ELSE inside)

\* the text in host position of "scheme:..." : what follows the slashes after
\* the scheme (all of them when the scheme is special, two otherwise), up to
\* the first '/', '?' or '#' and to the first ':' outside brackets
HostText(input) ==
    LET special == SchemeOf(input) \in SPECIAL_SCHEMES
        rest == AfterScheme(input)
        authority == IF special THEN LStrip(rest, {SLASH, BSLASH}) ELSE From(rest, 2)
        text == SubSeq(authority, 1,
                       FirstOf(authority, {SLASH, QMARK, HASH}
                                          \cup (IF special THEN {BSLASH} ELSE {})))
    IN SubSeq(text, 1, ColonOutsideBrackets(text, 0, FALSE))

\* the schemes C28 calls special
HostSpecialSchemes == {S_FTP, S_HTTP, S_HTTPS, S_WS, S_WSS}

\* the host of a special URL is not empty, and is an IPv6 address from a text
\* in brackets, an IPv4 address from an ASCII domain that ends in a number,
\* or an ASCII domain without forbidden-domain code point
SpecialHost(host, text) ==
    \/ /\ host.t = "list"
       /\ StartsWith(text, <<LBRACK>>) /\ EndsWith(text, <<RBRACK>>)
       /\ IsIpv6Address(host.l)
    \/ /\ host.t = "int"
       /\ host.n >= 0
       /\ LET Number(d) == d.ok /\ EndsInNumber(d.v) /\ \A i \in 1..Len(d.v) : d.v[i] < 128
          IN Number(DomainToAscii(Unquote(text), FALSE))
    \/ /\ host.t = "str"
       /\ host.s # <<>>
       /\ \A i \in 1..Len(host.s) :
              host.s[i] < 128 /\ host.s[i] \notin FORBIDDEN_DOMAIN_CODE_POINTS

\* the host of a URL that is not special is the text percent-encoded with the
\* C0 control set, and no code point of it is a forbidden host code point
OpaqueHost(host, text) ==
    /\ host.t = "str"
    /\ host.s = Utf8PercentEncode(text, C0_CONTROL_PERCENT_ENCODE_SET)
    /\ \A i \in 1..Len(host.s) : host.s[i] \notin FORBIDDEN_HOST_CODE_POINTS

\* a ':' between '[' and ']' does not end the host: the host is the one of the
\* text up to the first ':' outside brackets
BracketsKeepColon ==
    LET Same(r) == r.ok /\ p.url.hostname = r.v
    IN Same(ParseHost(HostText(call.input), p.url.is_special))

\* C28 as stated: after a successful parse the host of a URL of scheme ftp,
\* http, https, ws or wss is not empty and is an IPv6 address, an IPv4
\* address or an ASCII domain without forbidden-domain code point; the host
\* of a URL whose scheme is not special is the input percent-encoded with the
\* C0 control set, without forbidden-host code point; a ':' between '[' and
\* ']' does not end the host.
C28_HostAsStated ==
    pc = "parsed" =>
        /\ p.url.scheme \in HostSpecialSchemes => SpecialHost(p.url.hostname, HostText(call.input))
        /\ ~p.url.is_special => OpaqueHost(p.url.hostname, HostText(call.input))
        /\ BracketsKeepColon

\* C28: the same, where the host of a URL whose scheme is not special is an
\* IPv6 address when the text starts with '[', as for a special scheme, and
\* the percent-encoded text otherwise.
C28_HostForms ==
    pc = "parsed" =>
        /\ p.url.scheme \in HostSpecialSchemes => SpecialHost(p.url.hostname, HostText(call.input))
        /\ ~p.url.is_special =>
              IF StartsWith(HostText(call.input), <<LBRACK>>)
              THEN /\ p.url.hostname.t = "list"
                   /\ EndsWith(HostText(call.input), <<RBRACK>>)
                   /\ IsIpv6Address(p.url.hostname.l)
              ELSE OpaqueHost(p.url.hostname, HostText(call.input))
        /\ BracketsKeepColon

\* C28 happens: "http://[::]/p" was parsed into the IPv6 address of eight
\* zero pieces, the ':' in the brackets being part of the host
C28_Witness ==
    /\ pc = "parsed"
    /\ call.input = <<104, 116, 116, 112, 58, 47, 47, LBRACK, COLON, COLON, RBRACK, SLASH, 112>>
    /\ p.url.hostname = HostList(<<0, 0, 0, 0, 0, 0, 0, 0>>)
    /\ p.url.port = None
    /\ p.url.path = PathList(<< <<112>> >>)

(***************************************************************************)
(* _parse_url, one iteration at a time, on paths made of '..' segments in  *)
(* their spellings, after a drive letter and without one.                  *)
(***************************************************************************)
\* the most tokens of a path
MaxDotTokens == 3

\* the tokens: "..", "%2E.", ".", "a", "/"
DotTokens == {<<DOT, DOT>>, <<PCT, D2, UE, DOT>>, <<DOT>>, <<97>>, <<SLASH>>}

\* the paths of exactly n tokens
RECURSIVE DotPaths(_)
DotPaths(n) ==
    IF n = 0 THEN {<<>>}
    ELSE {s \o t : s \in DotPaths(n - 1), t \in DotTokens}

\* "file:///C:/x"
DriveBase == <<102, 105, 108, 101, 58, 47, 47, 47, 67, 58, 47, 120>>

\* how the inputs start, and the base_url: "file:///", "file:///C:/",
\* "file:///c|/", "file://h/C:/", "http://h/", "a://h/" and "a:/" without a
\* base, and "" with the base "file:///C:/x"
DotStarts ==
    {[prefix |-> <<102, 105, 108, 101, 58, 47, 47, 47>>, base_url |-> NoneStr],
     [prefix |-> <<102, 105, 108, 101, 58, 47, 47, 47, 67, 58, 47>>, base_url |-> NoneStr],
     [prefix |-> <<102, 105, 108, 101, 58, 47, 47, 47, 99, PIPE, 47>>, base_url |-> NoneStr],
     [prefix |-> <<102, 105, 108, 101, 58, 47, 47, 104, 47, 67, 58, 47>>, base_url |-> NoneStr],
     [prefix |-> <<104, 116, 116, 112, 58, 47, 47, 104, 47>>, base_url |-> NoneStr],
     [prefix |-> <<97, 58, 47, 47, 104, 47>>, base_url |-> NoneStr],
     [prefix |-> <<97, 58, 47>>, base_url |-> NoneStr],
     [prefix |-> <<>>, base_url |-> DriveBase]}

InitDots ==
    /\ \E start \in DotStarts, n \in 0..MaxDotTokens :
          \E path \in DotPaths(n) :
              call = [fn |-> "parse_url", input |-> start.prefix \o path,
                      base_url |-> start.base_url, encoding |-> "utf-8",
                      prefix |-> start.prefix, path |-> path]
    /\ pc = "call"
    /\ x = [input |-> <<>>, base |-> NoBase, sets |-> StandardSets]
    /\ p = InitialP("")
    /\ canonicalize = "None"
    /\ output = [shared |-> FALSE, base_path |-> PathList(<<>>)]

SpecDots == InitDots /\ [][NextRelative]_vars

\* a file URL whose path has a Windows drive letter for its first segment
DriveFirst(url) ==
    /\ url.scheme = S_FILE
    /\ ~url.path.opaque
    /\ url.path.segs # <<>>
    /\ IsWindowsDriveLetter(url.path.segs[1])

\* the PATH state is at the end of a '..' segment and the path is empty
DotsOnEmptyPath ==
    /\ p.state = "PATH"
    /\ ReachedEnd \/ ReadC.c \in {SLASH, QMARK, HASH} \/ SpecialBackslash(ReadC)
    /\ IsDoubleDotPathSegment(p.buffer)
    /\ p.url.path.segs = <<>>

MaxDriveTokens == 3

\* the tokens: "C|", "c:", "a", "/", "?", "localhost", "LocalHost"
DriveTokens ==
    {<<67, PIPE>>, <<99, COLON>>, <<97>>, <<SLASH>>, <<QMARK>>,
     <<108, 111, 99, 97, 108, 104, 111, 115, 116>>,
     <<76, 111, 99, 97, 108, 72, 111, 115, 116>>}

\* the sequences of exactly n tokens
RECURSIVE DriveTokenSeqs(_)
DriveTokenSeqs(n) ==
    IF n = 0 THEN {<<>>}
    ELSE {Append(s, t) : s \in DriveTokenSeqs(n - 1), t \in DriveTokens}

\* "file://h/d"
FileHostBase == <<102, 105, 108, 101, 58, 47, 47, 104, 47, 100>>

\* how the inputs start, the base_url, whether the first token stands in
\* path or in host position, and the host a path then leaves: "file:",
\* "file:/", "file:///", "file://h/" and "file://" without a base; "", "/"
\* and "//" with the base "file://h/d"
DriveStarts ==
    {[prefix |-> <<102, 105, 108, 101, 58>>, base_url |-> NoneStr,
      position |-> "path", host |-> <<>>],
     [prefix |-> <<102, 105, 108, 101, 58, 47>>, base_url |-> NoneStr,
      position |-> "path", host |-> <<>>],
     [prefix |-> <<102, 105, 108, 101, 58, 47, 47, 47>>, base_url |-> NoneStr,
      position |-> "path", host |-> <<>>],
     [prefix |-> <<102, 105, 108, 101, 58, 47, 47, 104, 47>>, base_url |-> NoneStr,
      position |-> "path", host |-> <<104>>],
     [prefix |-> <<102, 105, 108, 101, 58, 47, 47>>, base_url |-> NoneStr,
      position |-> "host", host |-> <<>>],
     [prefix |-> <<>>, base_url |-> FileHostBase, position |-> "path", host |-> <<104>>],
     [prefix |-> <<SLASH>>, base_url |-> FileHostBase, position |-> "path", host |-> <<104>>],
     [prefix |-> <<SLASH, SLASH>>, base_url |-> FileHostBase, position |-> "host",
      host |-> <<>>]}

InitDrive ==
    /\ \E start \in DriveStarts, n \in 1..MaxDriveTokens :
          \E tokens \in DriveTokenSeqs(n) :
              call = [fn |-> "parse_url", input |-> start.prefix \o Concat(tokens),
                      base_url |-> start.base_url, encoding |-> "utf-8",
                      start |-> start, tokens |-> tokens]
    /\ pc = "call"
    /\ x = [input |-> <<>>, base |-> NoBase, sets |-> StandardSets]
    /\ p = InitialP("")
    /\ canonicalize = "None"
    /\ output = NoneStr

\* parse_url(input, base_url)
DriveParse ==
    /\ pc = "call"
    /\ x' = [x EXCEPT !.input = PreprocessUrl(call.input)]
    /\ LET Then(r) ==
               IF r.ok THEN p' = [p EXCEPT !.url = r.v] /\ pc' = "parsed"
               ELSE p' = [p EXCEPT !.error = r.err] /\ pc' = "raised"
       IN Then(ParseUrl(call.input, call.base_url, call.encoding, StandardSets))
    /\ UNCHANGED <<call, canonicalize, output>>

NextDrive == DriveParse

SpecDrive == InitDrive /\ [][NextDrive]_vars

\* the first token is all of the first segment, or of the host
FirstTokenAlone == Len(call.tokens) = 1 \/ call.tokens[2] \in {<<SLASH>>, <<QMARK>>}

\* the first token is a drive letter, "C|" or "c:"; at the very start of an
\* input "c:" is a scheme, and no drive letter of a file URL
FirstTokenIsDrive ==
    /\ call.tokens[1] \in {<<67, PIPE>>, <<99, COLON>>}
    /\ FirstTokenAlone
    /\ ~(call.start.prefix = <<>> /\ call.tokens[1] = <<99, COLON>>)

\* C30: in a file URL parsed by parse_url a first path segment "X|" is stored
\* as "X:", and no first segment "X|" is stored in one; a drive letter in host
\* position, "X|" or "X:", is no host: the parse succeeds, the host is empty
\* and the drive letter, with ':', is the first path segment; and the host
\* "localhost", in any case of its letters, is stored as the empty host.
C30_DriveLetterNormalisation ==
    pc # "call" =>
        /\ (pc = "parsed" /\ p.url.scheme = S_FILE /\ p.url.path.segs # <<>>) =>
              ~(IsWindowsDriveLetter(p.url.path.segs[1]) /\ p.url.path.segs[1][2] = PIPE)
        /\ (call.start.position = "path" /\ FirstTokenIsDrive) =>
              /\ pc = "parsed"
              /\ p.url.hostname = HostStr(call.start.host)
              /\ p.url.path.segs # <<>>
              /\ p.url.path.segs[1] = <<call.tokens[1][1], COLON>>
        /\ (call.start.position = "host" /\ FirstTokenIsDrive) =>
              /\ pc = "parsed"
              /\ p.url.hostname = HostStr(<<>>)
              /\ p.url.path.segs # <<>>
              /\ p.url.path.segs[1] = <<call.tokens[1][1], COLON>>
        /\ (call.start.position = "host" /\ FirstTokenAlone /\ Len(call.tokens[1]) = 9) =>
              /\ pc = "parsed"
              /\ p.url.hostname = HostStr(<<>>)

\* C30 happens: "file://C|/a" was parsed into the empty host and the path
\* "C:", "a"
C30_Witness ==
    /\ pc = "parsed"
    /\ call.input = <<102, 105, 108, 101, 58, 47, 47, 67, PIPE, SLASH, 97>>
    /\ p.url.hostname = HostStr(<<>>)
    /\ p.url.path = PathList(<< <<67, COLON>>, <<97>> >>)

\* the segments the path holds when the PATH state starts on the tokens:
\* the drive letter of the start, if it has one
SegmentsOfStart(prefix) ==
    IF Len(prefix) > 9 /\ prefix[Len(prefix) - 1] \in {COLON, PIPE}
    THEN << <<prefix[Len(prefix) - 2], COLON>> >>
    ELSE <<>>

\* the path after the pieces i.. of a path text split on '/', segs being the
\* segments collected so far: a double-dot piece removes the last segment
\* (but, with protect, not a lone Windows drive letter), a single-dot piece
\* adds nothing, the last piece leaves an empty segment when it is a dot
\* segment, and any other piece is appended
RECURSIVE DotFold(_, _, _, _)
DotFold(pieces, i, segs, protect) ==
    IF i > Len(pieces) THEN segs
    ELSE LET piece == pieces[i]
             last == i = Len(pieces)
             removed == IF segs = <<>> THEN <<>>
                        ELSE IF protect /\ Len(segs) = 1 /\ IsWindowsDriveLetter(segs[1])
                        THEN segs
                        ELSE Front(segs)
             kept == IF piece \in {<<DOT, DOT>>, <<PCT, D2, UE, DOT>>} THEN removed
                     ELSE IF piece = <<DOT>> THEN segs
                     ELSE Append(segs, piece)
         IN DotFold(pieces, i + 1,
                    IF last /\ piece \in {<<DOT, DOT>>, <<PCT, D2, UE, DOT>>, <<DOT>>}
                    THEN Append(kept, <<>>) ELSE kept,
                    protect)

\* the inputs whose tokens are a path: "a:/" followed by '/' has an authority
TokensArePath == ~(call.prefix = <<97, 58, 47>> /\ StartsWith(call.path, <<SLASH>>))

\* no segment of the path is a dot segment
NoDotSegmentStored ==
    \A i \in 1..Len(p.url.path.segs) :
        /\ ~IsSingleDotPathSegment(p.url.path.segs[i])
        /\ ~IsDoubleDotPathSegment(p.url.path.segs[i])

\* C31 as stated: after a successful parse without base no segment of a
\* structured path is a dot segment; every double-dot segment removes the
\* last segment collected so far, if any, every single-dot segment adds
\* nothing, and a dot segment that no slash follows leaves an empty last
\* segment.
C31_DotSegmentsAsStated ==
    (pc = "parsed" /\ ~x.base.present /\ TokensArePath) =>
        /\ NoDotSegmentStored
        /\ p.url.path.segs =
               DotFold(SplitAcc(call.path, SLASH, <<>>), 1, SegmentsOfStart(call.prefix), FALSE)

\* C31: the same, where a double-dot segment removes nothing from a file URL
\* whose path is one segment, a Windows drive letter.
C31_DotSegments ==
    (pc = "parsed" /\ ~x.base.present /\ TokensArePath) =>
        /\ NoDotSegmentStored
        /\ p.url.path.segs =
               DotFold(SplitAcc(call.path, SLASH, <<>>), 1, SegmentsOfStart(call.prefix),
                       p.url.scheme = S_FILE)

\* C31 happens: "http://h/a/%2E." was parsed: the double-dot segment removed
\* "a" and left an empty last segment
C31_Witness ==
    /\ pc = "parsed"
    /\ x.input = <<104, 116, 116, 112, 58, 47, 47, 104, 47, 97, SLASH, PCT, D2, UE, DOT>>
    /\ p.url.path = PathList(<< <<>> >>)

(***************************************************************************)
(* _parse_ipv4 on strings built from parts.                                *)
(***************************************************************************)
\* the number of parts of an input
MaxIpv4Parts == 4

\* the parts and the number each one stands for when read as the digits of
\* its base: "" (no number), "0", "255", "256", "0x7F", "0X" (zero),
\* "010" (eight), "08" (no octal number), "-1" (no digits: signed marks
\* what int() makes of it), "65536", "0x1000000"
Ipv4Parts ==
    {[t |-> <<>>, ok |-> FALSE, signed |-> FALSE, v |-> 0],
     [t |-> <<48>>, ok |-> TRUE, signed |-> FALSE, v |-> 0],
     [t |-> <<50, 53, 53>>, ok |-> TRUE, signed |-> FALSE, v |-> 255],
     [t |-> <<50, 53, 54>>, ok |-> TRUE, signed |-> FALSE, v |-> 256],
     [t |-> <<48, 120, 55, 70>>, ok |-> TRUE, signed |-> FALSE, v |-> 127],
     [t |-> <<48, 88>>, ok |-> TRUE, signed |-> FALSE, v |-> 0],
     [t |-> <<48, 49, 48>>, ok |-> TRUE, signed |-> FALSE, v |-> 8],
     [t |-> <<48, 56>>, ok |-> FALSE, signed |-> FALSE, v |-> 0],
     [t |-> <<45, 49>>, ok |-> FALSE, signed |-> TRUE, v |-> -1],
     [t |-> <<54, 53, 53, 51, 54>>, ok |-> TRUE, signed |-> FALSE, v |-> 65536],
     [t |-> <<48, 120, 49, 48, 48, 48, 48, 48, 48>>, ok |-> TRUE, signed |-> FALSE, v |-> 16777216]}

\* the sequences of exactly n parts
RECURSIVE Ipv4PartSeqs(_)
Ipv4PartSeqs(n) ==
    IF n = 0 THEN {<<>>}
    ELSE {Append(s, t) : s \in Ipv4PartSeqs(n - 1), t \in Ipv4Parts}

\* the parts joined by '.', and the same with one more '.' at the end; the
\* integers of the model are below 2^31, so a first part of several is not
\* within 128..255
InitIpv4Parts ==
    /\ \E n \in 1..MaxIpv4Parts, dot \in BOOLEAN :
          \E parts \in Ipv4PartSeqs(n) :
              /\ n > 1 => parts[1].v \notin 128..255
              /\ call = [fn |-> "_parse_ipv4", parts |-> parts, dot |-> dot,
                         input |-> Join([i \in 1..n |-> parts[i].t], <<DOT>>)
                                   \o (IF dot THEN <<DOT>> ELSE <<>>)]
    /\ pc = "call"
    /\ x = [input |-> <<>>, base |-> NoBase, sets |-> StandardSets]
    /\ p = InitialP("")
    /\ canonicalize = "None"
    /\ output = NoneStr

\* _parse_ipv4(input): the address is kept as the host, an exception ends the call
Ipv4PartsParse ==
    /\ pc = "call"
    /\ x' = [x EXCEPT !.input = call.input]
    /\ LET Then(r) ==
               IF r.ok THEN p' = [p EXCEPT !.url.hostname = HostInt(r.v)] /\ pc' = "parsed"
               ELSE p' = [p EXCEPT !.error = r.err] /\ pc' = "raised"
       IN Then(ParseIpv4(call.input))
    /\ UNCHANGED <<call, canonicalize, output>>

NextIpv4Parts == Ipv4PartsParse

SpecIpv4Parts == InitIpv4Parts /\ [][NextIpv4Parts]_vars

\* the parts that are left when one empty final part is discarded
Ipv4Kept ==
    IF call.dot \/ Last(call.parts).t # <<>> THEN call.parts ELSE Front(call.parts)

\* the statement about the parts in Ipv4Kept, signs telling whether a part
\* with a sign is read as int() reads it or is no number; one part has no
\* limit here, 256^4 being above the integers of the model, and the input
\* without parts is left out
Ipv4AsStated(signs) ==
    LET kept == Ipv4Kept
        n == Len(kept)
        Number(part) == part.ok \/ (signs /\ part.signed)
        fails == \/ n > 4
                 \/ \E i \in 1..n : ~Number(kept[i])
                 \/ \E i \in 1..(n - 1) : kept[i].v > 255
                 \/ n > 1 /\ kept[n].v >= Pow(256, 5 - n)
        sum == kept[n].v
               + (IF n > 1 THEN kept[1].v * 16777216 ELSE 0)
               + (IF n > 2 THEN kept[2].v * 65536 ELSE 0)
               + (IF n > 3 THEN kept[3].v * 256 ELSE 0)
    IN
    \/ n = 0
    \/ pc = "call"
    \/ /\ (pc = "raised") <=> fails
       /\ pc = "raised" => p.error = "ValueError"
       /\ pc = "parsed" => p.url.hostname = HostInt(sum)
       /\ (pc = "parsed" /\ ~signs) => p.url.hostname.n >= 0

\* C32: IPv4 parsing: the input is split on '.', one empty final part is
\* discarded, and more than 4 parts fail; each part is read in base 16 after
\* "0x"/"0X", in base 8 after a leading "0" (when longer than one character),
\* otherwise in base 10, and an empty part fails; the parse fails if a part
\* but the last exceeds 255 or the last part is >= 256^(5-n) for n parts;
\* otherwise the result is last + sum of part_i * 256^(3-i), which is never
\* negative.
C32_Ipv4ParsingAsStated == Ipv4AsStated(FALSE)

(***************************************************************************)
(* _parse_ipv6 on strings built from fields joined by ':'.                 *)
(***************************************************************************)
\* the most fields of an input
MaxIpv6Fields == 9

\* the fields that fill an input: the empty field and "a"; a field carries
\* its text, its kind, the pieces it stands for and whether it has a defect
Ipv6PlainFields ==
    {[t |-> <<>>, kind |-> "empty", v |-> <<>>, defect |-> "none"],
     [t |-> <<97>>, kind |-> "hex", v |-> <<10>>, defect |-> "none"]}

\* the fields of which an input has at most one: "fF01", "12345" (five
\* digits), "1.2.3.4", "255.0.9.10", "256.1.1.1" (a part above 255),
\* "1.01.1.1" (a part with a leading zero), "1.2.3" and "1.2.3.4.5" (other
\* than four parts), "1..2.3" (an empty part), "a.1.1.1" (a part that is no
\* decimal number)
Ipv6SpecialFields ==
    {[t |-> <<102, 70, 48, 49>>, kind |-> "hex", v |-> <<65281>>, defect |-> "none"],
     [t |-> <<49, 50, 51, 52, 53>>, kind |-> "hex", v |-> <<>>, defect |-> "listed"],
     [t |-> <<49, 46, 50, 46, 51, 46, 52>>, kind |-> "quad", v |-> <<258, 772>>, defect |-> "none"],
     [t |-> <<50, 53, 53, 46, 48, 46, 57, 46, 49, 48>>, kind |-> "quad", v |-> <<65280, 2314>>, defect |-> "none"],
     [t |-> <<50, 53, 54, 46, 49, 46, 49, 46, 49>>, kind |-> "quad", v |-> <<>>, defect |-> "listed"],
     [t |-> <<49, 46, 48, 49, 46, 49, 46, 49>>, kind |-> "quad", v |-> <<>>, defect |-> "listed"],
     [t |-> <<49, 46, 50, 46, 51>>, kind |-> "quad", v |-> <<>>, defect |-> "listed"],
     [t |-> <<49, 46, 50, 46, 51, 46, 52, 46, 53>>, kind |-> "quad", v |-> <<>>, defect |-> "listed"],
     [t |-> <<49, 46, 46, 50, 46, 51>>, kind |-> "quad", v |-> <<>>, defect |-> "unlisted"],
     [t |-> <<97, 46, 49, 46, 49, 46, 49>>, kind |-> "quad", v |-> <<>>, defect |-> "unlisted"]}

InitIpv6Fields ==
    /\ \E n \in 1..MaxIpv6Fields : \E plain \in [1..n -> Ipv6PlainFields] :
          \E i \in 1..n, field \in Ipv6PlainFields \cup Ipv6SpecialFields :
              LET fields == [plain EXCEPT ![i] = field] IN
              call = [fn |-> "_parse_ipv6", fields |-> fields,
                      input |-> Join([k \in 1..n |-> fields[k].t], <<COLON>>)]
    /\ pc = "call"
    /\ x = [input |-> <<>>, base |-> NoBase, sets |-> StandardSets]
    /\ p = InitialP("")
    /\ canonicalize = "None"
    /\ output = NoneStr

\* _parse_ipv6(input)
Ipv6FieldsParse ==
    /\ pc = "call"
    /\ x' = [x EXCEPT !.input = call.input]
    /\ Ipv6Parsed(ParseIpv6(call.input))
    /\ UNCHANGED <<call, canonicalize, output>>

NextIpv6Fields == Ipv6FieldsParse

SpecIpv6Fields == InitIpv6Fields /\ [][NextIpv6Fields]_vars

\* the positions of the empty fields of the input
Ipv6Empty == {i \in 1..Len(call.fields) : call.fields[i].kind = "empty"}

\* the empty fields of one "::": one inside the input, two at its start or at
\* its end, three when "::" is the whole input
Ipv6OneCompress ==
    LET n == Len(call.fields) IN
    \/ \E i \in 2..(n - 1) : Ipv6Empty = {i}
    \/ n >= 3 /\ Ipv6Empty = {1, 2}
    \/ n >= 3 /\ Ipv6Empty = {n - 1, n}
    \/ n = 3 /\ Ipv6Empty = {1, 2, 3}

\* the pieces of the fields lo..hi
Ipv6Pieces(lo, hi) == Concat([k \in 1..(hi - lo + 1) |-> call.fields[lo + k - 1].v])

\* the input is well formed: no colon alone at an end and at most one "::",
\* no field with a defect among those that count, eight pieces without "::"
\* and at most seven with it; full tells whether a dotted quad has to be the
\* last field and free of the defects that are not listed
Ipv6WellFormed(full) ==
    LET n == Len(call.fields)
        count == Len(Ipv6Pieces(1, n))
    IN
    /\ Ipv6Empty = {} \/ Ipv6OneCompress
    /\ \A i \in 1..n : call.fields[i].defect # "listed"
    /\ full => \A i \in 1..n : /\ call.fields[i].defect = "none"
                               /\ call.fields[i].kind = "quad" => i = n
    /\ IF Ipv6Empty = {} THEN count = 8 ELSE count <= 7

\* the address of a well-formed input: the pieces before "::", zeros, and the
\* pieces after it
Ipv6Expected ==
    LET n == Len(call.fields)
        first == CHOOSE i \in Ipv6Empty : \A j \in Ipv6Empty : i <= j
        last == CHOOSE i \in Ipv6Empty : \A j \in Ipv6Empty : i >= j
    IN
    IF Ipv6Empty = {} THEN Ipv6Pieces(1, n)
    ELSE Ipv6Pieces(1, first - 1)
         \o [k \in 1..(8 - Len(Ipv6Pieces(1, n))) |-> 0]
         \o Ipv6Pieces(last + 1, n)

\* _parse_ipv6 rejects the inputs that are not well formed and returns the
\* address of the others
Ipv6Rejects(full) ==
    /\ pc = "raised" => ~Ipv6WellFormed(full) /\ p.error = "ValueError"
    /\ pc = "parsed" => Ipv6WellFormed(full) /\ p.url.hostname = HostList(Ipv6Expected)

Ipv6PieceText(piece) ==
    IF piece = 0 THEN <<48>> ELSE IF piece = 10 THEN <<97>> ELSE <<102, 102, 102, 102>>

\* the runs <<i, n>> of n >= 2 zero pieces from piece i (1-based) that no
\* zero piece precedes or follows
Ipv6ZeroRuns(a) ==
    {r \in (1..8) \X (2..8) :
        /\ r[1] + r[2] - 1 <= 8
        /\ \A k \in r[1]..(r[1] + r[2] - 1) : a[k] = 0
        /\ r[1] = 1 \/ a[r[1] - 1] # 0
        /\ r[1] + r[2] - 1 = 8 \/ a[r[1] + r[2]] # 0}

\* the leftmost run
Ipv6LeftmostRun(a) == CHOOSE r \in Ipv6ZeroRuns(a) : \A q \in Ipv6ZeroRuns(a) : r[1] <= q[1]

\* the leftmost of the longest runs
Ipv6FirstLongestRun(a) ==
    CHOOSE r \in Ipv6ZeroRuns(a) :
        \A q \in Ipv6ZeroRuns(a) : r[2] > q[2] \/ (r[2] = q[2] /\ r[1] <= q[1])

\* the pieces lo..hi in text, ':' between them
Ipv6PiecesText(a, lo, hi) ==
    Join([k \in 1..(hi - lo + 1) |-> Ipv6PieceText(a[lo + k - 1])], <<COLON>>)

\* the text of the address with "::" in the place of the run r, every other
\* piece written
Ipv6TextWithout(a, r) ==
    Ipv6PiecesText(a, 1, r[1] - 1) \o <<COLON, COLON>> \o Ipv6PiecesText(a, r[1] + r[2], 8)

\* C34 as stated: "::" replaces the leftmost run of two or more zero pieces.
C34_Ipv6LeftmostRun ==
    (pc = "serialized" /\ call.kind = "address") =>
        output = IF Ipv6ZeroRuns(call.address) = {} THEN Ipv6PiecesText(call.address, 1, 8)
                 ELSE Ipv6TextWithout(call.address, Ipv6LeftmostRun(call.address))

\* C34: IPv6 serialization: pieces are written in lowercase hex without
\* leading zeros; "::" replaces the longest run of two or more consecutive
\* zero pieces, the leftmost one when several are the longest; at most one run
\* is replaced, a single zero piece is never replaced and no other run of
\* zero pieces is shortened.
C34_Ipv6Serialization ==
    (pc = "serialized" /\ call.kind = "address") =>
        output = IF Ipv6ZeroRuns(call.address) = {} THEN Ipv6PiecesText(call.address, 1, 8)
                 ELSE Ipv6TextWithout(call.address, Ipv6FirstLongestRun(call.address))

\* C34 happens: 0:0:a:0:0:0:a:a was written as "0:0:a::a:a", the longer run
\* replaced and the first one kept
C34_Witness ==
    /\ pc = "serialized"
    /\ call.address = <<0, 0, 10, 0, 0, 0, 10, 10>>
    /\ output = <<48, COLON, 48, COLON, 97, COLON, COLON, 97, COLON, 97>>

(***************************************************************************)
(* _process, one iteration of its loop over set(domain_name) at a time.    *)
(***************************************************************************)
\* the most tokens of a domain
MaxProcessTokens == 3

\* "xn--zca", the Punycode label of U+00DF
XN_SHARP_S == XN_PREFIX \o <<122, 99, 97>>

\* the tokens of the domains, one per status or more: the text, when it
\* fails, and what stands for it after the loop without and with
\* transitional processing: "a" (valid), "A" (mapped), U+00AD (ignored),
\* U+00DF (deviation), U+00A0 (disallowed_STD3_mapped), "_"
\* (disallowed_STD3_valid), U+0080 (disallowed), U+00C8 (not in the table)
\* and "."
ProcessTokens ==
    {[t |-> <<97>>, bad |-> "never", plain |-> <<97>>, trans |-> <<97>>],
     [t |-> <<65>>, bad |-> "never", plain |-> <<97>>, trans |-> <<97>>],
     [t |-> <<SHY>>, bad |-> "never", plain |-> <<>>, trans |-> <<>>],
     [t |-> <<SHARP_S>>, bad |-> "never", plain |-> <<SHARP_S>>, trans |-> <<LS, LS>>],
     [t |-> <<NBSP>>, bad |-> "std3", plain |-> <<SP>>, trans |-> <<SP>>],
     [t |-> <<95>>, bad |-> "std3", plain |-> <<95>>, trans |-> <<95>>],
     [t |-> <<128>>, bad |-> "always", plain |-> <<>>, trans |-> <<>>],
     [t |-> <<200>>, bad |-> "always", plain |-> <<>>, trans |-> <<>>],
     [t |-> <<DOT>>, bad |-> "never", plain |-> <<DOT>>, trans |-> <<DOT>>]}

\* the sequences of exactly n tokens
RECURSIVE ProcessTokenSeqs(_)
ProcessTokenSeqs(n) ==
    IF n = 0 THEN {<<>>}
    ELSE {Append(s, t) : s \in ProcessTokenSeqs(n - 1), t \in ProcessTokens}

\* the domains with a Punycode label: "xn--zca" and U+00DF ".xn--zca"
XnDomains == {XN_SHARP_S, <<SHARP_S, DOT>> \o XN_SHARP_S}

\* _process is entered: the code points of the domain are still to be treated
InitProcess ==
    /\ \E std3 \in BOOLEAN, transitional \in BOOLEAN :
          \/ \E n \in 0..MaxProcessTokens : \E tokens \in ProcessTokenSeqs(n) :
                call = [fn |-> "_process", kind |-> "tokens", tokens |-> tokens,
                        domain_name |-> Concat([i \in 1..n |-> tokens[i].t]),
                        use_std3_ascii_rules |-> std3,
                        transitional_processing |-> transitional]
          \/ \E domain \in XnDomains :
                call = [fn |-> "_process", kind |-> "xn", tokens |-> <<>>,
                        domain_name |-> domain,
                        use_std3_ascii_rules |-> std3,
                        transitional_processing |-> transitional]
    /\ pc = "loop"
    /\ x = [input |-> <<>>, base |-> NoBase, sets |-> StandardSets]
    /\ p = InitialP("")
    /\ canonicalize = "None"
    /\ output = [remaining |-> Range(call.domain_name), domain_name |-> call.domain_name]

\* one iteration of `for code_point in set(domain_name)`, on whichever code
\* point the set gives next
ProcessIterate ==
    /\ pc = "loop"
    /\ \E code_point \in output.remaining :
          IF ProcessRaises(code_point, call.use_std3_ascii_rules)
          THEN /\ pc' = "raised"
               /\ p' = [p EXCEPT !.error = "ValueError"]
               /\ UNCHANGED output
          ELSE /\ output' = [remaining |-> output.remaining \ {code_point},
                             domain_name |->
                                 StrReplace(output.domain_name, code_point,
                                            ProcessCodePoint(code_point,
                                                             call.use_std3_ascii_rules,
                                                             call.transitional_processing))]
               /\ UNCHANGED <<pc, p>>
    /\ UNCHANGED <<call, x, canonicalize>>

\* the end of _process: the labels are validated and joined
ProcessValidate ==
    /\ pc = "loop"
    /\ output.remaining = {}
    /\ LET Then(r) ==
               IF r.ok THEN p' = [p EXCEPT !.buffer = r.v] /\ pc' = "processed"
               ELSE p' = [p EXCEPT !.error = r.err] /\ pc' = "raised"
       IN Then(ProcessLabels(output.domain_name, FALSE, call.transitional_processing,
                             call.use_std3_ascii_rules))
    /\ UNCHANGED <<call, x, canonicalize, output>>

NextProcess ==
    \/ ProcessIterate
    \/ ProcessValidate

SpecProcess == InitProcess /\ [][NextProcess]_vars

\* a token of the domain fails: always, or under the STD3 rules
ProcessBadToken ==
    \E i \in 1..Len(call.tokens) :
        \/ call.tokens[i].bad = "always"
        \/ call.use_std3_ascii_rules /\ call.tokens[i].bad = "std3"

\* what stands for every token of the domain after the loop
ProcessMapped ==
    Concat([i \in 1..Len(call.tokens) |->
        IF call.transitional_processing THEN call.tokens[i].trans ELSE call.tokens[i].plain])

\* C35: UTS #46 mapping step of to_ascii: each distinct code point of the
\* domain is treated by its table status: disallowed fails (the two
\* disallowed_STD3 statuses too under use_std3_ascii_rules); ignored has all
\* its occurrences removed; mapped (and disallowed_STD3_mapped without the
\* STD3 rules) has all its occurrences replaced by the mapping; deviation is
\* replaced only with transitional_processing; valid is kept; a code point
\* that is not in the table fails.  Labels starting with "xn--" are
\* validated with transitional_processing=false.
C35_MappingStep ==
    /\ call.kind = "tokens" =>
        /\ pc = "raised" => ProcessBadToken /\ p.error = "ValueError"
        /\ ProcessBadToken => pc # "processed" /\ output.remaining # {}
        /\ output.remaining = {} => output.domain_name = ProcessMapped
        /\ pc = "processed" => p.buffer = ProcessMapped
    /\ call.kind = "xn" =>
        /\ pc # "raised"
        /\ pc = "processed" =>
               p.buffer = IF call.domain_name = XN_SHARP_S THEN <<SHARP_S>>
                          ELSE IF call.transitional_processing
                          THEN <<LS, LS, DOT, SHARP_S>>
                          ELSE <<SHARP_S, DOT, SHARP_S>>

\* C35 happens: with transitional processing, the U+00DF of the domain was
\* replaced by "ss" and the one of the label "xn--zca" was accepted
C35_Witness ==
    /\ pc = "processed"
    /\ call.transitional_processing
    /\ call.domain_name = <<SHARP_S, DOT>> \o XN_SHARP_S
    /\ p.buffer = <<LS, LS, DOT, SHARP_S>>

(***************************************************************************)
(* _validate_label on labels of letters and hyphens.                       *)
(***************************************************************************)
\* the longest label
MaxHyphenLen == 5

\* the labels of exactly n code points, each "a" or "-"
RECURSIVE HyphenLabels(_)
HyphenLabels(n) ==
    IF n = 0 THEN {<<>>}
    ELSE {Append(s, c) : s \in HyphenLabels(n - 1), c \in {97, MINUS}}

InitHyphens ==
    /\ \E n \in 0..MaxHyphenLen, check_hyphens \in BOOLEAN, std3 \in BOOLEAN :
          \E label \in HyphenLabels(n) :
              call = [fn |-> "_validate_label", label |-> label,
                      check_hyphens |-> check_hyphens, use_std3_ascii_rules |-> std3]
    /\ pc = "call"
    /\ x = [input |-> <<>>, base |-> NoBase, sets |-> StandardSets]
    /\ p = InitialP("")
    /\ canonicalize = "None"
    /\ output = NoneStr

\* _validate_label(label, check_hyphens=...): it returns or raises ValueError
HyphensValidate ==
    /\ pc = "call"
    /\ IF ValidateLabel(call.label, call.check_hyphens, FALSE, call.use_std3_ascii_rules)
       THEN pc' = "validated" /\ p' = p
       ELSE pc' = "raised" /\ p' = [p EXCEPT !.error = "ValueError"]
    /\ UNCHANGED <<call, x, canonicalize, output>>

NextHyphens == HyphensValidate

SpecHyphens == InitHyphens /\ [][NextHyphens]_vars

\* the label has '-' in both its 3rd and 4th positions
HyphenThirdAndFourth ==
    Len(call.label) >= 4 /\ call.label[3] = MINUS /\ call.label[4] = MINUS

\* the label starts or ends with '-'
HyphenAtAnEnd ==
    call.label # <<>> /\ (call.label[1] = MINUS \/ call.label[Len(call.label)] = MINUS)

\* C36: label validation with check_hyphens set rejects every label that has
\* '-' in both its 3rd and 4th positions, every label that starts with '-'
\* and every label that ends with '-'; with check_hyphens unset none of these
\* is a reason for rejection.
C36_HyphenRules ==
    pc # "call" =>
        ((pc = "raised") <=> (call.check_hyphens /\ (HyphenThirdAndFourth \/ HyphenAtAnEnd)))

(***************************************************************************)
(* _to_ascii on domains built from labels of given lengths.                *)
(***************************************************************************)
\* the most labels of a domain
MaxDnsLabels == 4

\* n times "a"
Letters(n) == [i \in 1..n |-> 97]

\* the labels, each with the length of its ASCII form: "", "a", 62, 63 and
\* 64 times "a", and U+00E9 ("xn--9ca")
DnsLabels ==
    {[t |-> <<>>, ascii |-> 0],
     [t |-> Letters(1), ascii |-> 1],
     [t |-> Letters(62), ascii |-> 62],
     [t |-> Letters(63), ascii |-> 63],
     [t |-> Letters(64), ascii |-> 64],
     [t |-> <<EACUTE>>, ascii |-> 7]}

\* the sequences of exactly n labels
RECURSIVE DnsLabelSeqs(_)
DnsLabelSeqs(n) ==
    IF n = 0 THEN {<<>>}
    ELSE {Append(s, l) : s \in DnsLabelSeqs(n - 1), l \in DnsLabels}

InitDnsLength ==
    /\ \E n \in 1..MaxDnsLabels, verify_dns_length \in BOOLEAN :
          \E labels \in DnsLabelSeqs(n) :
              call = [fn |-> "_to_ascii", labels |-> labels,
                      domain_name |-> Join([i \in 1..n |-> labels[i].t], <<DOT>>),
                      verify_dns_length |-> verify_dns_length]
    /\ pc = "call"
    /\ x = [input |-> <<>>, base |-> NoBase, sets |-> StandardSets]
    /\ p = InitialP("")
    /\ canonicalize = "None"
    /\ output = NoneStr

\* _to_ascii(domain_name, verify_dns_length=...), the other flags unset
DnsLengthToAscii ==
    /\ pc = "call"
    /\ LET Then(r) ==
               IF r.ok THEN output' = r.v /\ pc' = "converted" /\ p' = p
               ELSE p' = [p EXCEPT !.error = r.err] /\ pc' = "raised" /\ output' = output
       IN Then(ToAscii(call.domain_name, FALSE, FALSE, FALSE, call.verify_dns_length))
    /\ UNCHANGED <<call, x, canonicalize>>

NextDnsLength == DnsLengthToAscii

SpecDnsLength == InitDnsLength /\ [][NextDnsLength]_vars

\* the sum of the ASCII lengths of labels and of the dots between them
RECURSIVE DnsTotal(_)
DnsTotal(labels) ==
    IF labels = <<>> THEN 0
    ELSE IF Len(labels) = 1 THEN labels[1].ascii
    ELSE labels[1].ascii + 1 + DnsTotal(Tail(labels))

\* the labels without the empty labels at the end
RECURSIVE DnsWithoutRoot(_)
DnsWithoutRoot(labels) ==
    IF labels # <<>> /\ Last(labels).ascii = 0 THEN DnsWithoutRoot(Front(labels)) ELSE labels

\* the lengths of the labels are within the limits of the DNS
DnsLengthsFit(labels, total) ==
    /\ 1 <= total /\ total <= 253
    /\ \A i \in 1..Len(labels) : 1 <= labels[i].ascii /\ labels[i].ascii <= 63

\* C37 as stated: a domain with one trailing dot is judged without its empty
\* root label: it succeeds when the labels before the dot and their length fit.
C37_RootLabelExempt ==
    (pc # "call" /\ call.verify_dns_length) =>
        LET n == Len(call.labels)
            body == IF n >= 2 /\ call.labels[n].ascii = 0 THEN Front(call.labels)
                    ELSE call.labels
        IN (pc = "converted") <=> DnsLengthsFit(body, DnsTotal(body))

\* C37: DNS length check: with verify_dns_length set, to_ascii succeeds
\* exactly when the length of the ASCII result without its trailing dots is
\* within 1..253 and every label, the empty root label of a trailing dot
\* included, has a length within 1..63, so that a domain with a trailing dot
\* fails; with verify_dns_length unset no length causes a failure.
C37_DnsLength ==
    pc # "call" =>
        /\ call.verify_dns_length =>
            ((pc = "converted") <=>
                DnsLengthsFit(call.labels, DnsTotal(DnsWithoutRoot(call.labels))))
        /\ ~call.verify_dns_length => pc = "converted"
        /\ pc = "converted" => Len(output) = DnsTotal(call.labels) /\ IsAscii(output)

\* C37 happens: a domain of 253 code points, in labels of 62, 63, 63 and 62,
\* passed the check
C37_Witness ==
    /\ pc = "converted"
    /\ call.verify_dns_length
    /\ call.domain_name =
           Join(<<Letters(62), Letters(63), Letters(63), Letters(62)>>, <<DOT>>)
    /\ Len(output) = 253

(***************************************************************************)
(* The states of _parse_url from one iteration of the loop to the next.    *)
(***************************************************************************)
\* the most code points after the scheme of an input
MaxStateLen == 4

\* the code points that follow the scheme: '8', '/', '@', '#', '?', ':'
StateAlphabet == {56, SLASH, AT, HASH, QMARK, COLON}

\* the strings of exactly n code points of the alphabet
RECURSIVE StateStrings(_)
StateStrings(n) ==
    IF n = 0 THEN {<<>>}
    ELSE {Append(s, c) : s \in StateStrings(n - 1), c \in StateAlphabet}

\* base_url: None, "http://b/p?r"
StateBases == {NoneStr, <<104, 116, 116, 112, 58, 47, 47, 98, 47, 112, 63, 114>>}

\* the call of _parse_url with an input and a base_url
InitStates ==
    /\ \E prefix \in LoopPrefixes, n \in 0..MaxStateLen, base_url \in StateBases :
          \E s \in StateStrings(n) :
              call = [fn |-> "parse_url", input |-> prefix \o s, base_url |-> base_url,
                      encoding |-> "utf-8"]
    /\ pc = "call"
    /\ x = [input |-> <<>>, base |-> NoBase, sets |-> StandardSets]
    /\ p = InitialP("")
    /\ canonicalize = "None"
    /\ output = [iterations |-> 0, rewinds |-> 0]

NextStates ==
    \/ LoopStart
    \/ LoopRewind
    \/ LoopIteration

SpecStates == InitStates /\ [][NextStates]_vars

\* the components of the record that come before the query
BeforeQuery(url) ==
    <<url.scheme, url.is_special, url.username, url.password, url.hostname, url.port,
      url.path>>

\* C38: forward-only state progression: every change of state in an
\* iteration of the loop goes to a state with a strictly higher number in the
\* declared order (SCHEME_START = 0 .. FRAGMENT = 19), so that no state is
\* entered again once left; an iteration in the QUERY or FRAGMENT state
\* leaves the scheme, the userinfo, the host, the port and the path as they
\* are, and an iteration in the FRAGMENT state the query too.
C38_ForwardOnly ==
    [][pc = "loop" =>
        /\ p'.state # p.state => StateNum(p'.state) > StateNum(p.state)
        /\ p.state \in {"QUERY", "FRAGMENT"} => BeforeQuery(p'.url) = BeforeQuery(p.url)
        /\ p.state = "FRAGMENT" => p'.url.query = p.url.query]_vars

\* C38 happens: "http:8?#" went through eight states, the last two QUERY and
\* FRAGMENT
C38_Witness ==
    /\ pc = "parsed"
    /\ x.input = <<104, 116, 116, 112, 58, 56, QMARK, HASH>>
    /\ call.base_url = NoneStr
    /\ p.state = "FRAGMENT"
    /\ p.url.hostname = HostInt(8)
    /\ p.url.query = <<>>
    /\ p.url.fragment = <<>>

(***************************************************************************)
(* The cursor of _parse_url: where the pointer stands and what it reads.   *)
(***************************************************************************)
\* the indices k of input[:pointer] with input[k] = c
IndicesBefore(input, pointer, c) == {k \in 0..(pointer - 1) : input[k + 1] = c}

\* the index of the first code point of the host of an authority that ends
\* at pointer, from the text of the input: after the last '@' of the
\* authority, or else after the slashes that open the authority, or else
\* after the ':' of a special scheme that no slash follows
HostStart(input, pointer) ==
    LET ats == IndicesBefore(input, pointer, AT)
        slashes == IndicesBefore(input, pointer, SLASH)
        colons == IndicesBefore(input, pointer, COLON)
        Highest(S) == CHOOSE k \in S : \A j \in S : j <= k
        Lowest(S) == CHOOSE k \in S : \A j \in S : k <= j
    IN IF ats # {} THEN Highest(ats) + 1
       ELSE IF slashes # {} THEN Highest(slashes) + 1
       ELSE Lowest(colons) + 1

\* the PATH state reads "input[pointer - 1]" in this iteration
PathLooksBack ==
    /\ p.state = "PATH"
    /\ ~ReachedEnd
    /\ ReadC.c \in {QMARK, HASH}
    /\ p.url.path.segs = <<>>
    /\ p.buffer = <<>>

\* the indices of input that an iteration at this pointer may read:
\* "c = input[pointer]" when not reached_end, "input[pointer + 1]" behind
\* "pointer + 1 < len(input)", "input[pointer + 1]" and "input[pointer + 2]"
\* behind "pointer + 2 >= len(input)", and "input[pointer - 1]" in PATH
CursorReads ==
    (IF ~ReachedEnd THEN {p.pointer} ELSE {})
        \cup (IF p.pointer + 1 < Len(x.input) THEN {p.pointer + 1} ELSE {})
        \cup (IF ~(p.pointer + 2 >= Len(x.input)) THEN {p.pointer + 1, p.pointer + 2} ELSE {})
        \cup (IF PathLooksBack THEN {p.pointer - 1} ELSE {})

\* C39: cursor bounds: at the start of every iteration of the loop the
\* pointer is within 0..len(input); it is never below -1, neither after the
\* branch of the state nor when the loop is left; every read of
\* input[pointer], input[pointer + 1], input[pointer + 2] and
\* input[pointer - 1] is at an index within 0..len(input) - 1, so that none
\* wraps around through a negative index; and the rewind of the AUTHORITY
\* state by len(buffer) + 1 leaves the pointer exactly one position before
\* the first code point of the host.
C39_CursorBounds ==
    /\ pc \in {"parsed", "raised"} => p.pointer >= -1
    /\ pc = "loop" =>
        /\ p.pointer \in 0..Len(x.input)
        /\ CursorReads \subseteq 0..(Len(x.input) - 1)
        /\ output.iterations <= IterationBound(x.input) =>
              LET q == LoopBody(x, p) IN
              /\ q.pointer >= -1
              /\ AuthorityRewinds =>
                    /\ q.pointer = HostStart(x.input, p.pointer) - 1
                    /\ q.pointer = p.pointer - (Len(p.buffer) + 1)

\* C39 happens: in "http:/8@8" the AUTHORITY state has read "8" after the
\* '@' and stands at the end of the input, about to rewind to index 7, and
\* the host starts at index 8
C39_Witness ==
    /\ pc = "loop"
    /\ x.input = <<104, 116, 116, 112, 58, SLASH, 56, AT, 56>>
    /\ AuthorityRewinds
    /\ p.pointer = 9
    /\ p.buffer = <<56>>
    /\ LoopBody(x, p).pointer = 7
    /\ HostStart(x.input, p.pointer) = 8

====
